---- MODULE Spec2Model ----
(***************************************************************************)
(* MCP Web Bridge v4.0 (mcp_web_bridge.py): the TTL cache, the job queue   *)
(* with deduplication, the single worker and the UNS discovery thread.     *)
(*                                                                         *)
(* Time is a discrete clock.  Python's None is the value None; an absent   *)
(* dict key is a key outside DOMAIN.  A Job object is a slot of jobs; a    *)
(* slot is free (NoJob) while no thread, queue or dict refers to it.       *)
(* A bounded wait (Event.wait(timeout), the 45 s read deadline) may expire *)
(* at any moment at which what it waits for has not happened.              *)
(***************************************************************************)
EXTENDS Integers, Sequences, FiniteSets, TLC

\* ------------------------------------------------------------------ bounds
MaxJobs  == 3        \* Job objects alive at one time
MaxClock == 3        \* clock ticks of one run
MaxTtl   == 2        \* the longest ttl class, in clock ticks
MaxReq   == 4        \* JSON-RPC request ids of one run
MaxProcs == 2        \* mcp-proxy subprocesses alive or not yet reaped
MaxPipe  == 2        \* lines waiting in the stdout pipe of a subprocess
MaxCalls == 3        \* the value up to which a counter of _stats is followed

\* --------------------------------------------------------------- constants
None    == "None"
Callers == {"h1", "h2"}     \* the HTTP handler threads inside _run_job
JobIds  == 1..MaxJobs

\* the two ttl classes: metadata (long) and query data (short)
CACHE_TTL_S == MaxTtl
DATA_TTL_S  == MaxTtl - 1

\* the pause of the worker after every call, in clock ticks
CALL_DELAY_S == 1

\* the read deadline of _send_rpc (45 s), in clock ticks
RPC_DEADLINE_S == 1

\* the threads that call _call_mcp: the worker and the thread started by
\* /api/uns/databases
Threads == {"w", "d"}
ProcIds == 1..MaxProcs

\* What the HTTP endpoints pass to _run_job: (tool, params, ttl); params is
\* a dict, kept as the sequence of its <<name, value>> items in insertion
\* order (names are numbered).
Requests ==
  { [tool |-> "listTables",   params |-> << <<1, "x">> >>, ttl |-> CACHE_TTL_S],
    [tool |-> "executeQuery", params |-> << <<1, "x">>, <<2, "s">> >>, ttl |-> DATA_TTL_S] }

\* submits of one tool: the same params in two orders and with two ttl, and
\* other params
KeyRequests ==
  { [tool |-> "executeQuery", params |-> << <<1, "x">>, <<2, "s">> >>, ttl |-> DATA_TTL_S],
    [tool |-> "executeQuery", params |-> << <<2, "s">>, <<1, "x">> >>, ttl |-> CACHE_TTL_S],
    [tool |-> "executeQuery", params |-> << <<2, "t">>, <<1, "x">> >>, ttl |-> DATA_TTL_S] }

\* json.dumps(params, sort_keys=True): the items ordered by name
RECURSIVE SortItems(_)
SortItems(items) ==
  IF items = << >> THEN << >>
  ELSE LET lo == CHOOSE i \in 1..Len(items) :
                   \A j \in 1..Len(items) : items[i][1] <= items[j][1]
           rest == [k \in 1..(Len(items) - 1) |->
                      IF k < lo THEN items[k] ELSE items[k + 1]]
       IN  <<items[lo]>> \o SortItems(rest)

\* (mutant) json.dumps(params): the items in insertion order
CacheKey_Unsorted(tool, params) == <<tool, params>>

\* cache_key = f"{tool}:{json.dumps(params, sort_keys=True)}"
CacheKey(tool, params) == <<tool, SortItems(params)>>

\* cache_key of /api/uns/databases
UnsKey == <<"uns_databases", << >> >>

\* What the backend can answer to a tools/call, as _call_mcp returns it
Results == {None, "v1"}

\* What _call_mcp can raise: str(exc) is msg
Exceptions ==
  { [type |-> "RuntimeError", msg |-> "boom"],
    [type |-> "RuntimeError", msg |-> ""],
    [type |-> "TimeoutError", msg |-> "No response"],
    [type |-> "OSError",      msg |-> "spawn failed"] }

\* resp of _call_mcp when the model does not follow the message
NoResp == [none |-> TRUE]

NoOut == [kind |-> "none", val |-> None, type |-> "", msg |-> "", resp |-> NoResp]
Returned(v) == [kind |-> "ok", val |-> v, type |-> "", msg |-> "", resp |-> NoResp]
Raised(e)   == [kind |-> "exc", val |-> None, type |-> e.type, msg |-> e.msg,
                resp |-> NoResp]

\* the outcomes of one _call_mcp
call_mcp_outcomes ==
  {Returned(v) : v \in Results} \cup {Raised(e) : e \in Exceptions}

\* one answer and one failure
SomeOutcomes ==
  {Returned("v1"), Raised([type |-> "RuntimeError", msg |-> "boom"])}

\* ------------------------------------------- _call_mcp: the response parsed
\* a content item {"type": "text", "text": s}
TextItem(s) == [type |-> "text", text |-> s]

\* messages _send_rpc can return for a tools/call: a JSON text, a plain text,
\* error-flagged envelopes (one text; an image before the text; no item),
\* and a JSON-RPC error object
Responses ==
  { [id |-> 1, result |-> [content |-> <<TextItem("\"v1\"")>>, isError |-> FALSE]],
    [id |-> 1, result |-> [content |-> <<TextItem("plain")>>]],
    [id |-> 1, result |-> [content |-> <<TextItem("boom")>>, isError |-> TRUE]],
    [id |-> 1, result |-> [content |-> <<[type |-> "image"], TextItem("boom")>>,
                           isError |-> TRUE]],
    [id |-> 1, result |-> [content |-> << >>, isError |-> TRUE]],
    [id |-> 1, error |-> [code |-> 1, message |-> "boom"]] }

\* envelopes without an error flag: no content member, no item, an image
\* only, and one text
Envelopes ==
  { [id |-> 1, result |-> [structuredContent |-> "s"]],
    [id |-> 1, result |-> [content |-> << >>]],
    [id |-> 1, result |-> [content |-> <<[type |-> "image"]>>]],
    [id |-> 1, result |-> [content |-> <<TextItem("plain")>>]] }

\* a dict that _call_mcp returns as it is, named by its JSON text
Value(result) ==
  CASE "content" \notin DOMAIN result -> "{\"structuredContent\": \"s\"}"
    [] result.content = << >>        -> "{\"content\": []}"
    [] OTHER                         -> "{\"content\": [{\"type\": \"image\"}]}"

\* json.loads(s): the value of a JSON text, or JSONDecodeError
json_loads(s) ==
  CASE s = "\"v1\"" -> [ok |-> TRUE, val |-> "v1"]
    [] s = "null"   -> [ok |-> TRUE, val |-> None]
    [] OTHER        -> [ok |-> FALSE, val |-> None]

\* str(resp["error"]) of an error object
StrOfError(err) == "{'code': 1}"

\* the text members of the items of type text, in order (line 263)
RECURSIVE Texts(_)
Texts(content) ==
  IF content = << >> THEN << >>
  ELSE (IF Head(content).type = "text" THEN <<Head(content).text>> ELSE << >>)
         \o Texts(Tail(content))

\* "\n".join(texts)
RECURSIVE Join(_)
Join(texts) ==
  IF texts = << >> THEN ""
  ELSE IF Len(texts) = 1 THEN texts[1]
  ELSE texts[1] \o "\n" \o Join(Tail(texts))

\* lines 256-260: the text of the first item of type text, "" without one
FirstText(content) == IF Texts(content) = << >> THEN "" ELSE Texts(content)[1]

\* (mutant) the isError flag is not looked at
IsError_Ignored(result) == FALSE

\* result.get("isError")
IsError(result) == "isError" \in DOMAIN result /\ result.isError

\* _call_mcp, lines 246-278, on the message resp: what it returns or raises
call_mcp(resp) ==
  LET out ==
        IF "error" \in DOMAIN resp
        THEN Raised([type |-> "RuntimeError",
                     msg |-> IF "message" \in DOMAIN resp.error
                             THEN resp.error.message ELSE StrOfError(resp.error)])
        ELSE LET result == resp.result
                 combined == Join(Texts(result.content))
             IN IF "content" \in DOMAIN result
                THEN IF IsError(result)
                     THEN Raised([type |-> "RuntimeError",
                                  msg |-> "MCP tool error: " \o FirstText(result.content)])
                     ELSE Returned(IF json_loads(combined).ok
                                   THEN json_loads(combined).val ELSE combined)
                ELSE Returned(Value(result))
  IN [out EXCEPT !.resp = resp]

\* ------------------------------------------- anylog_rest_proxy: requests
\* the threads of the threaded server
LHandlers == {"p1", "p2"}

\* request.get_json(force=True, silent=True): None for a body that is no
\* JSON ("none"), else the JSON value: an object with its members, or a
\* non-empty array
NoBody    == [kind |-> "none", items |-> [k \in {} |-> "None"]]
ListBody  == [kind |-> "list", items |-> [k \in {} |-> "None"]]
Dict(items) == [kind |-> "dict", items |-> items]
Bodies ==
  { NoBody, ListBody, Dict([k \in {} |-> "None"]),
    Dict([sql |-> "q"]), Dict([dbms |-> "db"]),
    Dict([dbms |-> "   ", sql |-> "q"]),
    Dict([dbms |-> "db", sql |-> "q"]),
    Dict([dbms |-> "db", table |-> "t"]),
    Dict([table |-> "t", intervalLength |-> "abc"]),
    Dict([command |-> "get status"]), Dict([command |-> "   "]) }

\* POST /api/command without and with the member timeout
CmdRequests ==
  { [method |-> "POST", path |-> "/api/command", body |-> b] :
      b \in { Dict([command |-> "get status"]),
              Dict([command |-> "get status", timeout |-> "5"]) } }

\* CFG["timeout"] as the module sets it, in seconds
CFG_TIMEOUT == 60

\* float(s) of the texts that occur
Float(s) == CASE s = "5" -> 5

PostPaths == {"/api/query", "/api/query/increment", "/api/command"}
\* (mutant) /stats is counted like any other path
_SKIP_PATHS_NoStats == {"/favicon.ico", "/health"}

_SKIP_PATHS == {"/favicon.ico", "/health", "/stats"}

LRequests ==
  {[method |-> "POST", path |-> p, body |-> b] : p \in PostPaths, b \in Bodies}
    \cup {[method |-> "GET", path |-> "/stats", body |-> NoBody]}

\* a valid POST /api/query, and GET /stats
SomeLRequests ==
  { [method |-> "POST", path |-> "/api/query", body |-> Dict([dbms |-> "db", sql |-> "q"])],
    [method |-> "GET", path |-> "/stats", body |-> NoBody] }

NoLReq   == [method |-> "", path |-> "", body |-> NoBody]
\* what requests.get did for the answer: nothing yet
NoCause  == [cls |-> "-", marker |-> FALSE]
NoLResp  == [status |-> 0, error |-> FALSE, cause |-> NoCause]
NoBefore == [proxy_calls |-> 0, anylog_calls |-> 0]

\* what the handler sees of anylog_get: the text of the response (one row),
\* or the except clause that catches what it raised
AnylogOutcomes ==
  {"text", "AnyLogError", "ConnectionError", "Timeout", "HTTPError", "Exception"}

\* what requests.get and raise_for_status do inside anylog_get: a response
\* ("ok"), or an exception of a class, whose text holds a marker of a chunked
\* AnyLog error ("err_code", "ProtocolError", ...) or not
BackendResults ==
  {[cls |-> c, marker |-> FALSE] :
     c \in {"ok", "ChunkedEncodingError", "ProtocolError", "ConnectionError",
            "ConnectTimeout", "ReadTimeout", "HTTPError", "InvalidHeader"}}
    \cup {[cls |-> "ConnectionError", marker |-> TRUE]}

\* isinstance(exc, base) for the classes of requests and urllib3
IsA(cls, base) ==
  \/ cls = base
  \/ cls = "ConnectTimeout" /\ base \in {"ConnectionError", "Timeout"}
  \/ cls = "ReadTimeout" /\ base = "Timeout"

\* threads that use the cache at the same time
CacheThreads == {"k1", "k2"}

\* the arguments of the cache function a thread is in
NoArg == [key |-> << >>, value |-> "None", ttl |-> 0]

\* the database lists _discover_databases_from_uns can collect
DbLists == {<< >>, <<"db1">>}

VARIABLES
  clock,         \* time.time()
  cache,         \* _cache: key -> value
  cache_ts,      \* _cache_ts: key -> time of the set
  jobs,          \* the Job objects, by identity
  job_queue,     \* _job_queue
  pending_jobs,  \* _pending_jobs: cache_key -> Job
  cpc, creq, cjob,         \* a caller in _run_job / _enqueue
  csaw,          \* history: the Job pending for the caller's key at its lookup
  wpc, wjob, wout,         \* the worker thread
  wake,          \* the time at which the worker's last time.sleep ends
  last_start,    \* history: the time at which the worker last entered _call_mcp
  started,       \* history: the Jobs whose _call_mcp the worker began
  stored,        \* history: the Jobs whose result the worker wrote to the cache
  synth,         \* history: the Jobs made by the cache-hit path
  dpc, dwait, ddbs, dret,  \* /api/uns/databases: its thread and its handler
  got,           \* history: the last two cache_get of a client of the cache
  was_set,       \* history: key -> the last cache_set of that client, if not cleared
  mcp_proc,      \* _mcp_proc: 0 is None
  procs,         \* the subprocesses: state, requests received, lines in stdout
  mcp_lock,      \* the holder of _mcp_lock, "-" when free
  req_id,        \* _req_id
  tpc, tmethod, tproc, tid, tdeadline, tres,   \* a thread inside _call_mcp
  spawned,       \* history: the subprocess this call of the thread spawned
  inited,        \* history: the subprocesses whose initialize was answered
  called,        \* history: the subprocesses a tools/call was written to
  stats,         \* anylog_rest_proxy: _stats
  lpc, lreq, lreg, lresp,  \* anylog_rest_proxy: a thread handling a request
  lbefore,       \* history: proxy_calls and anylog_calls when the request came
  cache_lock,    \* the holder of _cache_lock, "-" when free
  kpc, karg,     \* a thread inside cache_get, cache_set or cache_clear
  cfg_timeout,   \* anylog_rest_proxy: CFG["timeout"]
  lorig          \* api_command: orig_timeout of the thread, 0 outside

vars == <<clock, cache, cache_ts, jobs, job_queue, pending_jobs,
          cpc, creq, cjob, csaw, wpc, wjob, wout, wake, last_start,
          started, stored, synth, dpc, dwait, ddbs, dret, got, was_set,
          mcp_proc, procs, mcp_lock, req_id, tpc, tmethod, tproc, tid,
          tdeadline, tres, spawned, inited, called,
          stats, lpc, lreq, lreg, lresp, lbefore, cache_lock, kpc, karg,
          cfg_timeout, lorig>>

cacheVars  == <<cache, cache_ts>>
jobVars    == <<jobs, job_queue, pending_jobs>>
callerVars == <<cpc, creq, cjob, csaw>>
throttleVars == <<wake, last_start>>
workerVars == <<wpc, wjob, wout, throttleVars>>
histVars   == <<started, stored, synth>>
discVars   == <<dpc, dwait, ddbs, dret>>
rpcVars    == <<mcp_proc, procs, mcp_lock, req_id, tpc, tmethod, tproc, tid,
               tdeadline, tres, spawned, inited, called>>
legacyVars == <<stats, lpc, lreq, lreg, lresp, lbefore>>
lockVars   == <<cache_lock, kpc, karg>>
cfgVars    == <<cfg_timeout, lorig>>
extVars    == <<rpcVars, legacyVars, lockVars, cfgVars>>
restVars   == <<discVars, got, was_set, extVars>>

\* ------------------------------------------------------------------- cache
\* (mutant) an entry of age ttl is still fresh
cache_get_le(key, ttl) ==
  IF key \in DOMAIN cache /\ (clock - cache_ts[key]) <= ttl
  THEN cache[key] ELSE None

\* cache_get(key, ttl)
cache_get(key, ttl) ==
  IF key \in DOMAIN cache /\ (clock - cache_ts[key]) < ttl
  THEN cache[key] ELSE None

\* a dict after d[key] = value
DictSet(d, key, value) ==
  [k \in (DOMAIN d) \cup {key} |-> IF k = key THEN value ELSE d[k]]

\* a dict after d.pop(key, None)
DictPop(d, key) == [k \in (DOMAIN d) \ {key} |-> d[k]]

EmptyDict == [k \in {} |-> None]

NoGet == [key |-> << >>, ttl |-> 0, at |-> 0, val |-> None]

\* cache_set(key, value)
cache_set(key, value) ==
  /\ cache' = DictSet(cache, key, value)
  /\ cache_ts' = DictSet(cache_ts, key, clock)

\* (mutant) the two dicts are rebound as locals: nothing is discarded
cache_clear_Local ==
  /\ was_set' = EmptyDict
  /\ UNCHANGED <<clock, cacheVars, jobVars, callerVars, workerVars, histVars, discVars, got,
                 extVars>>

\* (mutant) the clear also empties the Pending Index
cache_clear_Pending ==
  /\ cache' = EmptyDict
  /\ cache_ts' = EmptyDict
  /\ was_set' = EmptyDict
  /\ pending_jobs' = EmptyDict
  /\ UNCHANGED <<clock, jobs, job_queue, callerVars, workerVars, histVars, discVars,
                 got, extVars>>

\* cache_clear(), reached by POST /api/cache/clear
cache_clear ==
  /\ cache' = EmptyDict
  /\ cache_ts' = EmptyDict
  /\ was_set' = EmptyDict
  /\ UNCHANGED <<clock, jobVars, callerVars, workerVars, histVars, discVars, got, extVars>>

\* time passes
Tick ==
  /\ clock < MaxClock
  /\ clock' = clock + 1
  /\ UNCHANGED <<cacheVars, jobVars, callerVars, workerVars, histVars, restVars>>

\* --------------------------------------------------------------------- Job
\* Job(tool, params, cache_key, cache_ttl) with the dataclass defaults
Job(req) ==
  [tool |-> req.tool, params |-> req.params,
   cache_key |-> CacheKey(req.tool, req.params), cache_ttl |-> req.ttl,
   done |-> FALSE, result |-> None, error |-> None]

NoReq == [tool |-> "", params |-> << >>, ttl |-> 0]
NoJob == [tool |-> "", params |-> << >>, cache_key |-> << >>, cache_ttl |-> 0,
          done |-> FALSE, result |-> None, error |-> None]

\* the Job objects something still refers to
Refs(cj, cs, wj, pend, q) ==
  {cj[c] : c \in Callers} \cup {cs[c] : c \in Callers} \cup {wj}
    \cup {pend[k] : k \in DOMAIN pend} \cup {q[i] : i \in DOMAIN q}

\* the objects no longer referred to are collected
Collect(js, refs) == [j \in JobIds |-> IF j \in refs THEN js[j] ELSE NoJob]

FreeIds  == {j \in JobIds : jobs[j] = NoJob}
NewJobId == CHOOSE j \in FreeIds : \A k \in FreeIds : j <= k

\* what _call_mcp got from _send_rpc: the exception raised, the id of the
\* message returned
NoRes == [exc |-> "-", id |-> 0]

\* a subprocess slot: not spawned, no request received, nothing in its stdout
NoProc == [state |-> "none", pend |-> {}, out |-> << >>]

Init ==
  /\ clock = 0
  /\ cache = EmptyDict
  /\ cache_ts = EmptyDict
  /\ jobs = [j \in JobIds |-> NoJob]
  /\ job_queue = << >>
  /\ pending_jobs = EmptyDict
  /\ cpc = [c \in Callers |-> "idle"]
  /\ creq = [c \in Callers |-> NoReq]
  /\ cjob = [c \in Callers |-> 0]
  /\ csaw = [c \in Callers |-> 0]
  /\ wpc = "get"
  /\ wjob = 0
  /\ wout = NoOut
  /\ wake = 0
  /\ last_start = -1
  /\ started = {}
  /\ stored = {}
  /\ synth = {}
  /\ dpc = "idle"
  /\ dwait = FALSE
  /\ ddbs = << >>
  /\ dret = "-"
  /\ got = <<NoGet, NoGet>>
  /\ was_set = EmptyDict
  /\ mcp_proc = 0
  /\ procs = [p \in ProcIds |-> NoProc]
  /\ mcp_lock = "-"
  /\ req_id = 0
  /\ tpc = [t \in Threads |-> "idle"]
  /\ tmethod = [t \in Threads |-> "-"]
  /\ tproc = [t \in Threads |-> 0]
  /\ tid = [t \in Threads |-> 0]
  /\ tdeadline = [t \in Threads |-> 0]
  /\ tres = [t \in Threads |-> NoRes]
  /\ spawned = [t \in Threads |-> 0]
  /\ inited = {}
  /\ called = {}
  /\ stats = [proxy_calls |-> 0, anylog_calls |-> 0, total_rows |-> 0, errors |-> 0]
  /\ lpc = [h \in LHandlers |-> "idle"]
  /\ lreq = [h \in LHandlers |-> NoLReq]
  /\ lreg = [h \in LHandlers |-> 0]
  /\ lresp = [h \in LHandlers |-> NoLResp]
  /\ lbefore = [h \in LHandlers |-> NoBefore]
  /\ cache_lock = "-"
  /\ kpc = [t \in CacheThreads |-> "idle"]
  /\ karg = [t \in CacheThreads |-> NoArg]
  /\ cfg_timeout = CFG_TIMEOUT
  /\ lorig = [h \in LHandlers |-> 0]

\* ---------------------------------------------------------------- _enqueue
\* Job objects still to be created by callers that are inside _enqueue
Reserved == Cardinality({c \in Callers : cpc[c] = "lock"})

\* (mutant) the synthetic Job is returned without done set
HitJob_NotDone(req, cached) == [Job(req) EXCEPT !.result = cached]

\* lines 128-130: the pre-done synthetic Job of a cache hit
HitJob(req, cached) == [Job(req) EXCEPT !.result = cached, !.done = TRUE]

\* (mutant) the Pending Index is never consulted
PendingJob_Never(key) == 0

\* lines 134-136: the in-flight Job of a key, 0 when there is none
PendingJob(key) == IF key \in DOMAIN pending_jobs THEN pending_jobs[key] ELSE 0

\* _run_job -> _enqueue, lines 121-131: the cache lookup and the fast path
EnqueueLookup(c, req) ==
  LET key == CacheKey(req.tool, req.params)
      cached == cache_get(key, req.ttl)
  IN /\ cpc[c] = "idle"
     /\ Cardinality(FreeIds) > Reserved
     /\ creq' = [creq EXCEPT ![c] = req]
     /\ IF cached # None
        THEN /\ jobs' = [jobs EXCEPT ![NewJobId] = HitJob(req, cached)]
             /\ synth' = synth \cup {NewJobId}
             /\ cjob' = [cjob EXCEPT ![c] = NewJobId]
             /\ cpc' = [cpc EXCEPT ![c] = "wait"]
             /\ UNCHANGED csaw
        ELSE /\ csaw' = [csaw EXCEPT ![c] =
                           IF key \in DOMAIN pending_jobs THEN pending_jobs[key] ELSE 0]
             /\ cpc' = [cpc EXCEPT ![c] = "lock"]
             /\ UNCHANGED <<jobs, synth, cjob>>
     /\ UNCHANGED <<clock, cacheVars, job_queue, pending_jobs, workerVars,
                    started, stored, restVars>>

\* (mutant) the new Job is not entered into the Pending Index
EnqueuePending_NoInsert(c) ==
  LET key == CacheKey(creq[c].tool, creq[c].params)
  IN /\ cpc[c] = "lock"
     /\ IF PendingJob(key) # 0
        THEN /\ cjob' = [cjob EXCEPT ![c] = PendingJob(key)]
             /\ cpc' = [cpc EXCEPT ![c] = "wait"]
             /\ UNCHANGED <<jobs, pending_jobs>>
        ELSE /\ jobs' = [jobs EXCEPT ![NewJobId] = Job(creq[c])]
             /\ cjob' = [cjob EXCEPT ![c] = NewJobId]
             /\ cpc' = [cpc EXCEPT ![c] = "put"]
             /\ UNCHANGED pending_jobs
     /\ UNCHANGED <<clock, cacheVars, job_queue, creq, csaw, workerVars,
                    histVars, restVars>>

\* _enqueue, lines 133-138: under _pending_lock, join or create
EnqueuePending(c) ==
  LET key == CacheKey(creq[c].tool, creq[c].params)
  IN /\ cpc[c] = "lock"
     /\ IF PendingJob(key) # 0
        THEN /\ cjob' = [cjob EXCEPT ![c] = PendingJob(key)]
             /\ cpc' = [cpc EXCEPT ![c] = "wait"]
             /\ UNCHANGED <<jobs, pending_jobs>>
        ELSE /\ jobs' = [jobs EXCEPT ![NewJobId] = Job(creq[c])]
             /\ pending_jobs' = DictSet(pending_jobs, key, NewJobId)
             /\ cjob' = [cjob EXCEPT ![c] = NewJobId]
             /\ cpc' = [cpc EXCEPT ![c] = "put"]
     /\ UNCHANGED <<clock, cacheVars, job_queue, creq, csaw, workerVars,
                    histVars, restVars>>

\* _enqueue, lines 140-141: _job_queue.put(j)
EnqueuePut(c) ==
  /\ cpc[c] = "put"
  /\ job_queue' = Append(job_queue, cjob[c])
  /\ cpc' = [cpc EXCEPT ![c] = "wait"]
  /\ UNCHANGED <<clock, cacheVars, jobs, pending_jobs, creq, cjob, csaw,
                 workerVars, histVars, restVars>>

\* ---------------------------------------------------------------- _run_job
\* Python truthiness of job.error (None and "" are falsy)
Truthy(s) == s # None /\ s # ""

\* what _run_job returns once done is set, lines 386-388
RunJobResult(job) ==
  IF Truthy(job.error) THEN <<None, job.error>> ELSE <<job.result, None>>

\* the handler thread ends and its references go
Leave(c) ==
  LET cj == [cjob EXCEPT ![c] = 0]
      cs == [csaw EXCEPT ![c] = 0]
      refs == Refs(cj, cs, wjob, pending_jobs, job_queue)
  IN /\ cpc' = [cpc EXCEPT ![c] = "idle"]
     /\ creq' = [creq EXCEPT ![c] = NoReq]
     /\ cjob' = cj
     /\ csaw' = cs
     /\ jobs' = Collect(jobs, refs)
     /\ started' = started \cap refs
     /\ stored' = stored \cap refs
     /\ synth' = synth \cap refs

\* job.done.wait returned True: _run_job returns RunJobResult(job)
RunJobWake(c) ==
  /\ cpc[c] = "wait"
  /\ jobs[cjob[c]].done
  /\ Leave(c)
  /\ UNCHANGED <<clock, cacheVars, job_queue, pending_jobs, workerVars, restVars>>

\* (mutant) the caller that gives up cancels the Job
RunJobTimeout_Cancel(c) ==
  /\ cpc[c] = "wait"
  /\ ~jobs[cjob[c]].done
  /\ cpc' = [cpc EXCEPT ![c] = "idle"]
  /\ creq' = [creq EXCEPT ![c] = NoReq]
  /\ cjob' = [cjob EXCEPT ![c] = 0]
  /\ csaw' = [csaw EXCEPT ![c] = 0]
  /\ pending_jobs' = DictPop(pending_jobs, jobs[cjob[c]].cache_key)
  /\ UNCHANGED <<clock, cacheVars, jobs, job_queue, workerVars, histVars, restVars>>

\* job.done.wait(timeout=JOB_TIMEOUT_S) expired, line 385: _run_job returns
\* (None, "timeout waiting for MCP worker")
RunJobTimeout(c) ==
  /\ cpc[c] = "wait"
  /\ ~jobs[cjob[c]].done
  /\ Leave(c)
  /\ UNCHANGED <<clock, cacheVars, job_queue, pending_jobs, workerVars, restVars>>

\* ----------------------------------------------------------------- _worker
\* (mutant) the queue is served newest first
WorkerGet_Lifo ==
  /\ wpc = "get"
  /\ job_queue # << >>
  /\ wjob' = job_queue[Len(job_queue)]
  /\ job_queue' = SubSeq(job_queue, 1, Len(job_queue) - 1)
  /\ wpc' = "mcp"
  /\ started' = started \cup {job_queue[Len(job_queue)]}
  /\ last_start' = clock
  /\ UNCHANGED <<clock, cacheVars, jobs, pending_jobs, callerVars, wout, wake,
                 stored, synth, restVars>>

\* job = _job_queue.get(timeout=5), lines 149-156: the Job is dequeued and
\* _call_mcp(job.tool, job.params) is entered
WorkerGet ==
  /\ wpc = "get"
  /\ job_queue # << >>
  /\ wjob' = Head(job_queue)
  /\ job_queue' = Tail(job_queue)
  /\ wpc' = "mcp"
  /\ started' = started \cup {Head(job_queue)}
  /\ last_start' = clock
  /\ UNCHANGED <<clock, cacheVars, jobs, pending_jobs, callerVars, wout, wake,
                 stored, synth, restVars>>

\* (mutant) `except RuntimeError`
WorkerCatches_Runtime(out) == out.type = "RuntimeError"

\* `except Exception` catches every exception _call_mcp raises
WorkerCatches(out) == TRUE

\* (mutant) the except branch also writes the error to the cache
WorkerCallEnd_CacheErr(out) ==
  /\ wpc = "mcp"
  /\ wout' = out
  /\ IF out.kind = "ok"
     THEN /\ jobs' = [jobs EXCEPT ![wjob].result = out.val]
          /\ wpc' = "cache_set"
          /\ UNCHANGED cacheVars
     ELSE /\ jobs' = [jobs EXCEPT ![wjob].error = out.msg]
          /\ cache_set(jobs[wjob].cache_key, out.msg)
          /\ wpc' = "pop"
  /\ UNCHANGED <<clock, job_queue, pending_jobs, callerVars, wjob, throttleVars,
                 histVars, restVars>>

\* _call_mcp returns or raises, lines 156-161: job.result = result, or
\* job.error = str(exc); an exception that is not caught leaves the loop
\* after the finally block
WorkerCallEnd(out) ==
  /\ wpc = "mcp"
  /\ wout' = out
  /\ IF out.kind = "ok"
     THEN /\ jobs' = [jobs EXCEPT ![wjob].result = out.val]
          /\ wpc' = "cache_set"
     ELSE /\ jobs' = IF WorkerCatches(out)
                     THEN [jobs EXCEPT ![wjob].error = out.msg] ELSE jobs
          /\ wpc' = "pop"
  /\ UNCHANGED <<clock, cacheVars, job_queue, pending_jobs, callerVars, wjob,
                 throttleVars, histVars, restVars>>

\* (mutant) done is signalled as soon as the result is stored, before the
\* Pending Index entry is removed
WorkerCacheSet_Done ==
  /\ wpc = "cache_set"
  /\ cache_set(jobs[wjob].cache_key, wout.val)
  /\ jobs' = [jobs EXCEPT ![wjob].done = TRUE]
  /\ stored' = stored \cup {wjob}
  /\ wpc' = "pop"
  /\ UNCHANGED <<clock, job_queue, pending_jobs, callerVars, wjob, wout, throttleVars,
                 started, synth, restVars>>

\* cache_set(job.cache_key, result), line 158
WorkerCacheSet ==
  /\ wpc = "cache_set"
  /\ cache_set(jobs[wjob].cache_key, wout.val)
  /\ stored' = stored \cup {wjob}
  /\ wpc' = "pop"
  /\ UNCHANGED <<clock, jobVars, callerVars, wjob, wout, throttleVars, started, synth,
                 restVars>>

\* (mutant) done is signalled with the Pending Index entry still there
WorkerPop_Skip ==
  /\ wpc = "pop"
  /\ wpc' = "set"
  /\ UNCHANGED <<clock, cacheVars, jobVars, callerVars, wjob, wout, throttleVars,
                 histVars, restVars>>

\* (mutant) the entry is removed on the success path only
WorkerPop_OkOnly ==
  /\ wpc = "pop"
  /\ pending_jobs' = IF wout.kind = "ok"
                     THEN DictPop(pending_jobs, jobs[wjob].cache_key)
                     ELSE pending_jobs
  /\ wpc' = "set"
  /\ UNCHANGED <<clock, cacheVars, jobs, job_queue, callerVars, wjob, wout,
                 throttleVars, histVars, restVars>>

\* finally: _pending_jobs.pop(job.cache_key, None), lines 163-164
WorkerPop ==
  /\ wpc = "pop"
  /\ pending_jobs' = DictPop(pending_jobs, jobs[wjob].cache_key)
  /\ wpc' = "set"
  /\ UNCHANGED <<clock, cacheVars, jobs, job_queue, callerVars, wjob, wout,
                 throttleVars, histVars, restVars>>

\* (mutant) the sleep is on the success path only
SleepUntil_OkOnly(out) == IF out.kind = "ok" THEN clock + CALL_DELAY_S ELSE clock

\* time.sleep(CALL_DELAY_S) is in the finally block: it is entered after
\* every outcome and returns CALL_DELAY_S later at the earliest
SleepUntil(out) == clock + CALL_DELAY_S

\* finally: job.done.set(), lines 165-167, and time.sleep is entered
WorkerDoneSet ==
  /\ wpc = "set"
  /\ jobs' = [jobs EXCEPT ![wjob].done = TRUE]
  /\ wpc' = "sleep"
  /\ wake' = SleepUntil(wout)
  /\ UNCHANGED <<clock, cacheVars, job_queue, pending_jobs, callerVars, wjob, wout,
                 last_start, histVars, restVars>>

\* (mutant) after the sleep the worker drops the result of the Job
WorkerSleep_ClearResult ==
  LET refs == Refs(cjob, csaw, 0, pending_jobs, job_queue)
  IN /\ wpc = "sleep"
     /\ wpc' = "get"
     /\ wjob' = 0
     /\ wout' = NoOut
     /\ jobs' = Collect([jobs EXCEPT ![wjob].result = None], refs)
     /\ started' = started \cap refs
     /\ stored' = stored \cap refs
     /\ synth' = synth \cap refs
     /\ UNCHANGED <<clock, cacheVars, job_queue, pending_jobs, callerVars, throttleVars,
                    restVars>>

\* finally: time.sleep(CALL_DELAY_S), line 167, then the next iteration, or
\* the end of the thread when the exception was not caught
WorkerSleep ==
  LET refs == Refs(cjob, csaw, 0, pending_jobs, job_queue)
  IN /\ wpc = "sleep"
     /\ wpc' = IF wout.kind = "exc" /\ ~WorkerCatches(wout) THEN "dead" ELSE "get"
     /\ wjob' = 0
     /\ wout' = NoOut
     /\ jobs' = Collect(jobs, refs)
     /\ started' = started \cap refs
     /\ stored' = stored \cap refs
     /\ synth' = synth \cap refs
     /\ UNCHANGED <<clock, cacheVars, job_queue, pending_jobs, callerVars, throttleVars,
                    restVars>>

\* time.sleep(CALL_DELAY_S) has lasted CALL_DELAY_S
Slept == clock >= wake

\* ------------------------------------------------------ /api/uns/databases
\* api_uns_databases, lines 409-438: the cache lookup; on a miss a Job that
\* is neither queued nor pending, and a thread running _run
DiscRequest ==
  LET cached == cache_get(UnsKey, CACHE_TTL_S)
  IN /\ dpc = "idle"
     /\ ~dwait
     /\ IF cached # None
        THEN /\ dret' = "cache"
             /\ UNCHANGED <<dpc, dwait>>
        ELSE /\ dpc' = "types"
             /\ dwait' = TRUE
             /\ dret' = "-"
     /\ UNCHANGED <<clock, cacheVars, jobVars, callerVars, workerVars, histVars, ddbs, got, was_set, extVars>>

\* the thread is inside one of the _call_mcp of _discover_databases_from_uns
DiscInCall == dpc \in {"types_mcp", "policies_mcp", "netdbs_mcp"}

\* _discover_databases_from_uns enters _call_mcp, lines 294, 306, 328
DiscCall ==
  /\ dpc \in {"types", "policies", "netdbs"}
  /\ dpc' = CASE dpc = "types"    -> "types_mcp"
              [] dpc = "policies" -> "policies_mcp"
              [] dpc = "netdbs"   -> "netdbs_mcp"
  /\ UNCHANGED <<clock, cacheVars, jobVars, callerVars, workerVars, histVars,
                 dwait, ddbs, dret, got, was_set, extVars>>

\* that _call_mcp returns or raises, lines 293-349: listPolicyTypes tells
\* whether 'uns' exists, listPolicies and listNetworkDatabases give dbs; an
\* exception of the policy scan falls back to listNetworkDatabases, one of
\* the fallback is logged
DiscCallEnd(raised, has_uns, dbs) ==
  /\ DiscInCall
  /\ CASE dpc = "types_mcp" ->
            /\ dpc' = IF ~raised /\ has_uns THEN "policies" ELSE "netdbs"
            /\ UNCHANGED ddbs
       [] dpc = "policies_mcp" ->
            /\ dpc' = IF ~raised /\ dbs # << >> THEN "store" ELSE "netdbs"
            /\ ddbs' = IF ~raised THEN dbs ELSE << >>
       [] dpc = "netdbs_mcp" ->
            /\ dpc' = "store"
            /\ ddbs' = IF ~raised THEN dbs ELSE << >>
  /\ UNCHANGED <<clock, cacheVars, jobVars, callerVars, workerVars, histVars,
                 dwait, dret, got, was_set, extVars>>

\* _run, lines 426-427: job.result = dbs; cache_set(cache_key, dbs)
DiscStore ==
  /\ dpc = "store"
  /\ cache_set(UnsKey, ddbs)
  /\ dpc' = "set"
  /\ UNCHANGED <<clock, jobVars, callerVars, workerVars, histVars, dwait, ddbs, dret, got, was_set, extVars>>

\* _run, line 431: job.done.set(); the handler, if it still waits, answers
DiscDoneSet ==
  /\ dpc = "set"
  /\ dpc' = "idle"
  /\ ddbs' = << >>
  /\ dwait' = FALSE
  /\ dret' = IF dwait THEN "uns" ELSE dret
  /\ UNCHANGED <<clock, cacheVars, jobVars, callerVars, workerVars, histVars, got, was_set, extVars>>

\* job.done.wait(timeout=JOB_TIMEOUT_S * 2) expired, lines 439-440
DiscTimeout ==
  /\ dwait
  /\ dpc # "idle"
  /\ dwait' = FALSE
  /\ dret' = "timeout"
  /\ UNCHANGED <<clock, cacheVars, jobVars, callerVars, workerVars, histVars, dpc, ddbs, got, was_set, extVars>>

\* ------------------------------------------------- a client of the cache
\* (mutant) a get that finds a stale entry deletes it
CacheGet_Evict(key, ttl) ==
  LET stale == key \in DOMAIN cache /\ (clock - cache_ts[key]) >= ttl
  IN /\ got' = <<got[2], [key |-> key, ttl |-> ttl, at |-> clock, val |-> cache_get(key, ttl)]>>
     /\ cache' = IF stale THEN DictPop(cache, key) ELSE cache
     /\ cache_ts' = IF stale THEN DictPop(cache_ts, key) ELSE cache_ts
     /\ UNCHANGED <<clock, jobVars, callerVars, workerVars, histVars, discVars,
                    was_set, extVars>>

\* cache_get(key, ttl) by any thread; what it returned is remembered
CacheGet(key, ttl) ==
  /\ got' = <<got[2], [key |-> key, ttl |-> ttl, at |-> clock, val |-> cache_get(key, ttl)]>>
  /\ UNCHANGED <<clock, cacheVars, jobVars, callerVars, workerVars, histVars, discVars,
                 was_set, extVars>>

\* cache_set(key, value) by any thread; what it stored is remembered
CacheSet(key, value) ==
  /\ cache_set(key, value)
  /\ was_set' = DictSet(was_set, key, [val |-> value, at |-> clock])
  /\ UNCHANGED <<clock, jobVars, callerVars, workerVars, histVars, discVars, got, extVars>>

\* ------------------------------------ the cache, statement by statement
nonCacheVars == <<clock, jobVars, callerVars, workerVars, histVars, discVars,
                  rpcVars, legacyVars, cfgVars>>

\* (mutant) the functions do not take _cache_lock
LockFree_Always == TRUE

\* `with _cache_lock` can be entered
LockFree == cache_lock = "-"

\* the `with _cache_lock` block is left
Unlock(t) ==
  /\ cache_lock' = IF cache_lock = t THEN "-" ELSE cache_lock
  /\ kpc' = [kpc EXCEPT ![t] = "idle"]
  /\ karg' = [karg EXCEPT ![t] = NoArg]

\* cache_set(key, value), line 89: the lock is taken
KSetBegin(t, key, value) ==
  /\ kpc[t] = "idle"
  /\ LockFree
  /\ cache_lock' = t
  /\ kpc' = [kpc EXCEPT ![t] = "set_val"]
  /\ karg' = [karg EXCEPT ![t] = [key |-> key, value |-> value, ttl |-> 0]]
  /\ UNCHANGED <<nonCacheVars, cacheVars, got, was_set>>

\* line 90: _cache[key] = value
KSetValue(t) ==
  /\ kpc[t] = "set_val"
  /\ cache' = DictSet(cache, karg[t].key, karg[t].value)
  /\ kpc' = [kpc EXCEPT ![t] = "set_ts"]
  /\ UNCHANGED <<nonCacheVars, cache_ts, got, was_set, cache_lock, karg>>

\* line 91: _cache_ts[key] = time.time(), and the lock is released
KSetTs(t) ==
  /\ kpc[t] = "set_ts"
  /\ cache_ts' = DictSet(cache_ts, karg[t].key, clock)
  /\ was_set' = DictSet(was_set, karg[t].key, [val |-> karg[t].value, at |-> clock])
  /\ Unlock(t)
  /\ UNCHANGED <<nonCacheVars, cache, got>>

\* cache_get(key, ttl), line 82: the lock is taken
KGetBegin(t, key, ttl) ==
  /\ kpc[t] = "idle"
  /\ LockFree
  /\ cache_lock' = t
  /\ kpc' = [kpc EXCEPT ![t] = "get"]
  /\ karg' = [karg EXCEPT ![t] = [key |-> key, value |-> None, ttl |-> ttl]]
  /\ UNCHANGED <<nonCacheVars, cacheVars, got, was_set>>

\* lines 83-85: the two dicts are read, and the lock is released
KGet(t) ==
  /\ kpc[t] = "get"
  /\ got' = <<got[2], [key |-> karg[t].key, ttl |-> karg[t].ttl, at |-> clock,
                       val |-> cache_get(karg[t].key, karg[t].ttl)]>>
  /\ Unlock(t)
  /\ UNCHANGED <<nonCacheVars, cacheVars, was_set>>

\* cache_clear(), line 95: the lock is taken
KClearBegin(t) ==
  /\ kpc[t] = "idle"
  /\ LockFree
  /\ cache_lock' = t
  /\ kpc' = [kpc EXCEPT ![t] = "clr_val"]
  /\ UNCHANGED <<nonCacheVars, cacheVars, got, was_set, karg>>

\* line 96: _cache.clear()
KClearValue(t) ==
  /\ kpc[t] = "clr_val"
  /\ cache' = EmptyDict
  /\ kpc' = [kpc EXCEPT ![t] = "clr_ts"]
  /\ UNCHANGED <<nonCacheVars, cache_ts, got, was_set, cache_lock, karg>>

\* line 97: _cache_ts.clear(), and the lock is released
KClearTs(t) ==
  /\ kpc[t] = "clr_ts"
  /\ cache_ts' = EmptyDict
  /\ was_set' = EmptyDict
  /\ Unlock(t)
  /\ UNCHANGED <<nonCacheVars, cache, got>>

\* ------------------------------------------- the MCP client: _get_mcp_proc
bridgeVars == <<cacheVars, jobVars, callerVars, workerVars, histVars, discVars,
                got, was_set>>
nonRpcVars == <<bridgeVars, legacyVars, lockVars, cfgVars>>

FreeProcs == {p \in ProcIds : procs[p].state = "none"}
NewProc   == CHOOSE p \in FreeProcs : \A q \in FreeProcs : p <= q

\* (mutant) only `_mcp_proc is None` is tested
NeedsSpawn_NoPoll == mcp_proc = 0

\* line 186: _mcp_proc is None or _mcp_proc.poll() is not None
NeedsSpawn == mcp_proc = 0 \/ procs[mcp_proc].state = "exited"

\* an exception leaves _send_rpc, and the `with _mcp_lock` block if the
\* thread is inside it
RpcRaise(t, exc) ==
  /\ tpc' = [tpc EXCEPT ![t] = "raise"]
  /\ tres' = [tres EXCEPT ![t] = [exc |-> exc, id |-> 0]]
  /\ mcp_lock' = IF mcp_lock = t THEN "-" ELSE mcp_lock

\* _call_mcp -> _get_mcp_proc, lines 183-203: under _mcp_lock, a live
\* subprocess is returned as it is; otherwise Popen, which may fail, assigns
\* _mcp_proc and the handshake begins with the lock held
GetMcpProc(t, popen_ok) ==
  /\ tpc[t] = "idle"
  /\ mcp_lock = "-"
  /\ IF NeedsSpawn
     THEN IF popen_ok
          THEN /\ FreeProcs # {}
               /\ procs' = [procs EXCEPT ![NewProc].state = "alive"]
               /\ mcp_proc' = NewProc
               /\ mcp_lock' = t
               /\ tproc' = [tproc EXCEPT ![t] = NewProc]
               /\ spawned' = [spawned EXCEPT ![t] = NewProc]
               /\ tmethod' = [tmethod EXCEPT ![t] = "initialize"]
               /\ tpc' = [tpc EXCEPT ![t] = "incr"]
               /\ UNCHANGED tres
          ELSE /\ RpcRaise(t, "OSError")
               /\ UNCHANGED <<procs, mcp_proc, tproc, spawned, tmethod>>
     ELSE /\ popen_ok
          /\ tproc' = [tproc EXCEPT ![t] = mcp_proc]
          /\ tmethod' = [tmethod EXCEPT ![t] = "tools/call"]
          /\ tpc' = [tpc EXCEPT ![t] = "incr"]
          /\ UNCHANGED <<procs, mcp_proc, mcp_lock, spawned, tres>>
  /\ UNCHANGED <<clock, nonRpcVars, req_id, tid, tdeadline, inited, called>>

\* ------------------------------------------------- the MCP client: _send_rpc
\* line 209: _req_id += 1
SendIncr(t) ==
  /\ tpc[t] = "incr"
  /\ req_id < MaxReq
  /\ req_id' = req_id + 1
  /\ tpc' = [tpc EXCEPT ![t] = "write"]
  /\ UNCHANGED <<clock, nonRpcVars, mcp_proc, procs, mcp_lock, tmethod, tproc, tid,
                 tdeadline, tres, spawned, inited, called>>

\* lines 210-219: the request takes the current _req_id and is written to the
\* stdin of the subprocess, which fails when that has exited; the
\* notification returns None at once, which ends _get_mcp_proc and begins the
\* _send_rpc of tools/call; a request sets its deadline
SendWrite(t) ==
  LET p == tproc[t]
  IN /\ tpc[t] = "write"
     /\ clock + RPC_DEADLINE_S <= MaxClock
     /\ IF procs[p].state # "alive"
        THEN /\ RpcRaise(t, "BrokenPipeError")
             /\ UNCHANGED <<procs, tid, tmethod, tdeadline, called>>
        ELSE /\ procs' = [procs EXCEPT ![p].pend = @ \cup {req_id}]
             /\ tid' = [tid EXCEPT ![t] = req_id]
             /\ called' = IF tmethod[t] = "tools/call" THEN called \cup {p} ELSE called
             /\ IF tmethod[t] = "notifications/initialized"
                THEN /\ mcp_lock' = "-"
                     /\ tmethod' = [tmethod EXCEPT ![t] = "tools/call"]
                     /\ tpc' = [tpc EXCEPT ![t] = "incr"]
                     /\ UNCHANGED tdeadline
                ELSE /\ tdeadline' = [tdeadline EXCEPT ![t] = clock + RPC_DEADLINE_S]
                     /\ tpc' = [tpc EXCEPT ![t] = "loop"]
                     /\ UNCHANGED <<mcp_lock, tmethod>>
             /\ UNCHANGED tres
     /\ UNCHANGED <<clock, nonRpcVars, mcp_proc, req_id, tproc, spawned, inited>>

\* line 220: while time.time() < deadline, and line 231 after the loop
SendLoop(t) ==
  /\ tpc[t] = "loop"
  /\ IF clock < tdeadline[t]
     THEN /\ tpc' = [tpc EXCEPT ![t] = "readline"]
          /\ UNCHANGED <<tres, mcp_lock>>
     ELSE RpcRaise(t, "TimeoutError")
  /\ UNCHANGED <<clock, nonRpcVars, mcp_proc, procs, req_id, tmethod, tproc, tid,
                 tdeadline, spawned, inited, called>>

\* line 227: msg.get("id") == _req_id, with _req_id as it is now; a line
\* that is no JSON or carries no id is line 0
IsResponse(line) == line # 0 /\ line = req_id

\* lines 221-230: proc.stdout.readline() blocks until the pipe holds a line
\* or is at end of file; the matching message is returned, any other line is
\* skipped, and at end of file the loop sleeps 0.05 s and goes on
SendReadline(t) ==
  LET p == tproc[t]
      line == Head(procs[p].out)
  IN /\ tpc[t] = "readline"
     /\ procs[p].out # << >> \/ procs[p].state = "exited"
     /\ IF procs[p].out # << >>
        THEN /\ procs' = [procs EXCEPT ![p].out = Tail(@)]
             /\ IF IsResponse(line)
                THEN IF tmethod[t] = "initialize"
                     THEN /\ inited' = inited \cup {p}
                          /\ tmethod' = [tmethod EXCEPT ![t] = "notifications/initialized"]
                          /\ tpc' = [tpc EXCEPT ![t] = "incr"]
                          /\ UNCHANGED tres
                     ELSE /\ tpc' = [tpc EXCEPT ![t] = "ret"]
                          /\ tres' = [tres EXCEPT ![t] = [exc |-> "-", id |-> line]]
                          /\ UNCHANGED <<inited, tmethod>>
                ELSE /\ tpc' = [tpc EXCEPT ![t] = "loop"]
                     /\ UNCHANGED <<inited, tmethod, tres>>
        ELSE /\ tpc' = [tpc EXCEPT ![t] = "loop"]
             /\ UNCHANGED <<procs, inited, tmethod, tres>>
     /\ UNCHANGED <<clock, nonRpcVars, mcp_proc, mcp_lock, req_id, tproc, tid,
                    tdeadline, spawned, called>>

\* _call_mcp returns or raises to its caller; a subprocess that has exited
\* and that nothing refers to any more is reaped
CallMcpEnd(t) ==
  LET tp == [tproc EXCEPT ![t] = 0]
      gone == {p \in ProcIds : /\ procs[p].state = "exited"
                               /\ p # mcp_proc
                               /\ \A u \in Threads : tp[u] # p}
  IN /\ tpc[t] \in {"ret", "raise"}
     /\ tpc' = [tpc EXCEPT ![t] = "idle"]
     /\ tmethod' = [tmethod EXCEPT ![t] = "-"]
     /\ tproc' = tp
     /\ tid' = [tid EXCEPT ![t] = 0]
     /\ tdeadline' = [tdeadline EXCEPT ![t] = 0]
     /\ tres' = [tres EXCEPT ![t] = NoRes]
     /\ spawned' = [spawned EXCEPT ![t] = 0]
     /\ procs' = [p \in ProcIds |-> IF p \in gone THEN NoProc ELSE procs[p]]
     /\ inited' = inited \ gone
     /\ called' = called \ gone
     /\ UNCHANGED <<clock, nonRpcVars, mcp_proc, mcp_lock, req_id>>

\* ------------------------------------------------ the mcp-proxy subprocess
\* it answers a request it has received, at any time
ProcAnswer(p, id) ==
  /\ procs[p].state = "alive"
  /\ id \in procs[p].pend
  /\ Len(procs[p].out) < MaxPipe
  /\ procs' = [procs EXCEPT ![p].pend = @ \ {id}, ![p].out = Append(@, id)]
  /\ UNCHANGED <<clock, nonRpcVars, mcp_proc, mcp_lock, req_id, tpc, tmethod, tproc,
                 tid, tdeadline, tres, spawned, inited, called>>

\* it writes a line that answers nothing: a notification, a log line
ProcOther(p) ==
  /\ procs[p].state = "alive"
  /\ Len(procs[p].out) < MaxPipe
  /\ procs' = [procs EXCEPT ![p].out = Append(@, 0)]
  /\ UNCHANGED <<clock, nonRpcVars, mcp_proc, mcp_lock, req_id, tpc, tmethod, tproc,
                 tid, tdeadline, tres, spawned, inited, called>>

\* it exits; what it wrote stays in the pipe
ProcExit(p) ==
  /\ procs[p].state = "alive"
  /\ procs' = [procs EXCEPT ![p].state = "exited", ![p].pend = {}]
  /\ UNCHANGED <<clock, nonRpcVars, mcp_proc, mcp_lock, req_id, tpc, tmethod, tproc,
                 tid, tdeadline, tres, spawned, inited, called>>

\* --------------------------------------------- anylog_rest_proxy: handlers
nonLegacyVars == <<clock, bridgeVars, rpcVars, lockVars>>

\* `request.get_json(...) or {}`: None and the empty object give {}
JsonOrEmpty(body) ==
  IF body.kind = "none" \/ (body.kind = "dict" /\ DOMAIN body.items = {})
  THEN Dict([k \in {} |-> "None"]) ELSE body

\* body.get(key, default)
BodyGet(body, key, default) ==
  IF key \in DOMAIN body.items THEN body.items[key] ELSE default

\* str.strip() of the texts that occur
Strip(str) == CASE str = "   " -> "" [] OTHER -> str

\* (body.get(key) or default).strip()
Field(body, key, default) ==
  LET v == BodyGet(body, key, None)
  IN Strip(IF Truthy(v) THEN v ELSE default)

\* int(v) raises for None and for a text that is no number
IntRaises(v) == v \notin {"1", "2"}

\* what the handler of a POST endpoint does before any backend call: it
\* answers 400 through _err, proceeds to the call, or raises (body.get of a
\* value that is no dict, int() of intervalLength), which Flask answers with
\* its own 500 page
Validate(path, json) ==
  LET body == JsonOrEmpty(json)
  IN IF body.kind # "dict" THEN "raise"
     ELSE CASE path = "/api/query" ->
                 IF ~Truthy(Field(body, "dbms", "")) \/ ~Truthy(Field(body, "sql", ""))
                 THEN "400" ELSE "call"
            [] path = "/api/query/increment" ->
                 IF IntRaises(BodyGet(body, "intervalLength", "1")) THEN "raise"
                 ELSE IF ~Truthy(Field(body, "dbms", "")) \/ ~Truthy(Field(body, "table", ""))
                 THEN "400" ELSE "call"
            [] path = "/api/command" ->
                 IF ~Truthy(Field(body, "command", "")) THEN "400" ELSE "call"

\* anylog_get, lines 198-249: the text is returned; an exception that is a
\* chunked-encoding error by its class or by its text becomes AnyLogError,
\* any other is raised again as it is
anylog_get(res) ==
  IF res.cls = "ok" THEN "text"
  ELSE IF \/ IsA(res.cls, "ChunkedEncodingError") \/ IsA(res.cls, "ProtocolError")
          \/ res.marker
       THEN "AnyLogError"
       ELSE res.cls

\* the except clauses of api_query, lines 476-495, in their order
ExceptClause(cls) ==
  IF IsA(cls, "AnyLogError") THEN "AnyLogError"
  ELSE IF IsA(cls, "ConnectionError") THEN "ConnectionError"
  ELSE IF IsA(cls, "Timeout") THEN "Timeout"
  ELSE IF IsA(cls, "HTTPError") THEN "HTTPError"
  ELSE "Exception"

\* (mutant) no except clause for Timeout: it falls to `except Exception`
StatusOf_NoTimeout(path, outcome) ==
  CASE outcome = "text"        -> 200
    [] outcome = "AnyLogError" -> 502
    [] outcome = "ConnectionError" -> IF path = "/api/command" THEN 500 ELSE 502
    [] outcome = "HTTPError"   -> IF path = "/api/command" THEN 500 ELSE 502
    [] OTHER                   -> 500

\* the status the handler answers for an outcome of anylog_get (api_query:
\* lines 470-492, api_command: lines 565-573)
StatusOf(path, outcome) ==
  CASE outcome = "text"        -> 200
    [] outcome = "AnyLogError" -> 502
    [] outcome = "ConnectionError" -> IF path = "/api/command" THEN 500 ELSE 502
    [] outcome = "Timeout"     -> IF path = "/api/command" THEN 500 ELSE 504
    [] outcome = "HTTPError"   -> IF path = "/api/command" THEN 500 ELSE 502
    [] OTHER                   -> 500

\* a request arrives at a thread of the server
LReceive(h, req) ==
  /\ lpc[h] = "idle"
  /\ stats.proxy_calls < MaxCalls /\ stats.anylog_calls < MaxCalls
  /\ stats.errors < MaxCalls /\ stats.total_rows < MaxCalls
  /\ lreq' = [lreq EXCEPT ![h] = req]
  /\ lbefore' = [lbefore EXCEPT ![h] = [proxy_calls |-> stats.proxy_calls,
                                        anylog_calls |-> stats.anylog_calls]]
  /\ lresp' = [lresp EXCEPT ![h] = NoLResp]
  /\ lpc' = [lpc EXCEPT ![h] = "count"]
  /\ UNCHANGED <<nonLegacyVars, cfgVars, stats, lreg>>

\* before_request _count, lines 299-302: _stats["proxy_calls"] += 1 reads the
\* counter
LCountRead(h) ==
  /\ lpc[h] = "count"
  /\ IF lreq[h].method # "OPTIONS" /\ lreq[h].path \notin _SKIP_PATHS
     THEN /\ lreg' = [lreg EXCEPT ![h] = stats.proxy_calls]
          /\ lpc' = [lpc EXCEPT ![h] = "count_w"]
     ELSE /\ lpc' = [lpc EXCEPT ![h] = "route"]
          /\ UNCHANGED lreg
  /\ UNCHANGED <<nonLegacyVars, cfgVars, stats, lreq, lresp, lbefore>>

\* ... and stores the sum
LCountWrite(h) ==
  /\ lpc[h] = "count_w"
  /\ stats' = [stats EXCEPT !.proxy_calls = lreg[h] + 1]
  /\ lpc' = [lpc EXCEPT ![h] = "route"]
  /\ UNCHANGED <<nonLegacyVars, cfgVars, lreq, lreg, lresp, lbefore>>

\* api_command, lines 560-563: orig_timeout = CFG["timeout"], and a truthy
\* timeout of the body is stored in CFG["timeout"]
Override(h) ==
  LET timeout_override == BodyGet(JsonOrEmpty(lreq[h].body), "timeout", None)
  IN /\ lorig' = [lorig EXCEPT ![h] = cfg_timeout]
     /\ cfg_timeout' = IF Truthy(timeout_override) THEN Float(timeout_override)
                       ELSE cfg_timeout

\* the view function up to the backend call: stats_ep answers from _stats;
\* api_query, api_query_increment and api_command validate the body, and
\* api_command saves and overrides the timeout
LRoute(h) ==
  LET v == IF lreq[h].path = "/stats" THEN "stats"
           ELSE Validate(lreq[h].path, lreq[h].body)
  IN /\ lpc[h] = "route"
     /\ CASE v = "stats" ->
               /\ lresp' = [lresp EXCEPT ![h] = [status |-> 200, error |-> FALSE,
                                                 cause |-> NoCause]]
               /\ lpc' = [lpc EXCEPT ![h] = "done"]
               /\ UNCHANGED stats
          [] v = "400" ->
               /\ stats' = [stats EXCEPT !.errors = @ + 1]
               /\ lresp' = [lresp EXCEPT ![h] = [status |-> 400, error |-> TRUE,
                                                 cause |-> NoCause]]
               /\ lpc' = [lpc EXCEPT ![h] = "done"]
          [] v = "raise" ->
               /\ lresp' = [lresp EXCEPT ![h] = [status |-> 500, error |-> FALSE,
                                                 cause |-> NoCause]]
               /\ lpc' = [lpc EXCEPT ![h] = "done"]
               /\ UNCHANGED stats
          [] v = "call" ->
               /\ lpc' = [lpc EXCEPT ![h] = "al_read"]
               /\ UNCHANGED <<stats, lresp>>
     /\ IF v = "call" /\ lreq[h].path = "/api/command"
        THEN Override(h) ELSE UNCHANGED cfgVars
     /\ UNCHANGED <<nonLegacyVars, lreq, lreg, lbefore>>

\* anylog_get, line 195: _stats["anylog_calls"] += 1 reads the counter
LAnylogRead(h) ==
  /\ lpc[h] = "al_read"
  /\ lreg' = [lreg EXCEPT ![h] = stats.anylog_calls]
  /\ lpc' = [lpc EXCEPT ![h] = "al_write"]
  /\ UNCHANGED <<nonLegacyVars, cfgVars, stats, lreq, lresp, lbefore>>

\* ... and stores the sum; requests.get is sent
LAnylogWrite(h) ==
  /\ lpc[h] = "al_write"
  /\ stats' = [stats EXCEPT !.anylog_calls = lreg[h] + 1]
  /\ lpc' = [lpc EXCEPT ![h] = "backend"]
  /\ UNCHANGED <<nonLegacyVars, cfgVars, lreq, lreg, lresp, lbefore>>

\* api_command, lines 573-574: finally: CFG["timeout"] = orig_timeout
Restore(h) ==
  /\ cfg_timeout' = lorig[h]
  /\ lorig' = [lorig EXCEPT ![h] = 0]

\* requests.get returns or raises, anylog_get returns or raises, and the
\* handler builds its answer: rows are counted by run_sql, an error goes
\* through _err; api_command puts the timeout back
LBackend(h, res) ==
  LET raised  == anylog_get(res)
      outcome == IF raised = "text" THEN "text" ELSE ExceptClause(raised)
  IN /\ lpc[h] = "backend"
     /\ stats' = IF outcome = "text"
                 THEN [stats EXCEPT !.total_rows =
                         IF lreq[h].path = "/api/command" THEN @ ELSE @ + 1]
                 ELSE [stats EXCEPT !.errors = @ + 1]
     /\ lresp' = [lresp EXCEPT ![h] = [status |-> StatusOf(lreq[h].path, outcome),
                                       error |-> outcome # "text",
                                       cause |-> res]]
     /\ lpc' = [lpc EXCEPT ![h] = "done"]
     /\ IF lreq[h].path = "/api/command" THEN Restore(h) ELSE UNCHANGED cfgVars
     /\ UNCHANGED <<nonLegacyVars, lreq, lreg, lbefore>>

\* the response is sent: the request has completed
LDone(h) ==
  /\ lpc[h] = "done"
  /\ lpc' = [lpc EXCEPT ![h] = "idle"]
  /\ lreq' = [lreq EXCEPT ![h] = NoLReq]
  /\ lreg' = [lreg EXCEPT ![h] = 0]
  /\ lresp' = [lresp EXCEPT ![h] = NoLResp]
  /\ lbefore' = [lbefore EXCEPT ![h] = NoBefore]
  /\ UNCHANGED <<nonLegacyVars, cfgVars, stats>>

\* ---------------------------------------------------------- specifications
\* the callers CS submitting the requests RS, the worker with the outcomes OS
\* of its calls, the cache
BridgeOn(CS, OS, RS) ==
  \/ cache_clear
  \/ \E c \in CS, req \in RS : EnqueueLookup(c, req)
  \/ \E c \in CS : EnqueuePending(c)
  \/ \E c \in CS : EnqueuePut(c)
  \/ \E c \in CS : RunJobWake(c)
  \/ \E c \in CS : RunJobTimeout(c)
  \/ WorkerGet
  \/ \E out \in OS : WorkerCallEnd(out)
  \/ WorkerCacheSet
  \/ WorkerPop
  \/ WorkerDoneSet
  \/ WorkerSleep

Bridge(CS, OS) == BridgeOn(CS, OS, Requests)

\* GET /api/uns/databases
Discovery ==
  \/ DiscRequest
  \/ DiscCall
  \/ \E raised \in BOOLEAN, has_uns \in BOOLEAN, dbs \in DbLists :
        DiscCallEnd(raised, has_uns, dbs)
  \/ DiscStore
  \/ DiscDoneSet
  \/ DiscTimeout

\* two handler threads and the worker
Next == Bridge(Callers, SomeOutcomes)
Spec == Init /\ [][Next]_vars

\* one handler thread and the worker, every outcome of _call_mcp
NextWorker == Bridge({"h1"}, call_mcp_outcomes)
SpecWorker == Init /\ [][NextWorker]_vars

\* two handler threads submitting KeyRequests, and the worker
NextKeys == BridgeOn(Callers, {Returned("v1")}, KeyRequests)
SpecKeys == Init /\ [][NextKeys]_vars

\* one handler thread, the worker and /api/uns/databases
NextDisc == Bridge({"h1"}, SomeOutcomes) \/ Discovery
SpecDisc == Init /\ [][NextDisc]_vars

\* the cache alone, with time
CacheKeys == {CacheKey(r.tool, r.params) : r \in Requests}
NextCache ==
  \/ Tick
  \/ cache_clear
  \/ \E k \in CacheKeys, v \in Results : CacheSet(k, v)
  \/ \E k \in CacheKeys, ttl \in {DATA_TTL_S, CACHE_TTL_S} : CacheGet(k, ttl)
SpecCache == Init /\ [][NextCache]_vars

\* two threads inside the functions of the cache, with time
NextCacheLock ==
  \/ Tick
  \/ \E t \in CacheThreads, k \in CacheKeys, v \in Results : KSetBegin(t, k, v)
  \/ \E t \in CacheThreads : KSetValue(t)
  \/ \E t \in CacheThreads : KSetTs(t)
  \/ \E t \in CacheThreads, k \in CacheKeys : KGetBegin(t, k, DATA_TTL_S)
  \/ \E t \in CacheThreads : KGet(t)
  \/ \E t \in CacheThreads : KClearBegin(t)
  \/ \E t \in CacheThreads : KClearValue(t)
  \/ \E t \in CacheThreads : KClearTs(t)
SpecCacheLock == Init /\ [][NextCacheLock]_vars

\* one handler thread and the worker, whose calls get the messages Responses
NextRemote == Bridge({"h1"}, {call_mcp(resp) : resp \in Responses})
SpecRemote == Init /\ [][NextRemote]_vars

\* one handler thread and the worker, whose calls get the messages Envelopes
NextEnvelope == Bridge({"h1"}, {call_mcp(resp) : resp \in Envelopes})
SpecEnvelope == Init /\ [][NextEnvelope]_vars

\* anylog_rest_proxy: the threads HS handling the requests RS
Legacy(HS, RS) ==
  \/ \E h \in HS, req \in RS : LReceive(h, req)
  \/ \E h \in HS : LCountRead(h)
  \/ \E h \in HS : LCountWrite(h)
  \/ \E h \in HS : LRoute(h)
  \/ \E h \in HS : LAnylogRead(h)
  \/ \E h \in HS : LAnylogWrite(h)
  \/ \E h \in HS, res \in BackendResults : LBackend(h, res)
  \/ \E h \in HS : LDone(h)

\* two threads, valid queries and /stats
NextLegacy == Legacy(LHandlers, SomeLRequests)
SpecLegacy == Init /\ [][NextLegacy]_vars

\* two threads, POST /api/command
NextLegacyCmd == Legacy(LHandlers, CmdRequests)
SpecLegacyCmd == Init /\ [][NextLegacyCmd]_vars

\* one thread, every request
NextLegacyOne == Legacy({"p1"}, LRequests)
SpecLegacyOne == Init /\ [][NextLegacyOne]_vars

\* the worker with time: its sleep lasts CALL_DELAY_S
NextThrottle ==
  \/ Tick
  \/ \E req \in Requests : EnqueueLookup("h1", req)
  \/ EnqueuePending("h1")
  \/ EnqueuePut("h1")
  \/ RunJobWake("h1")
  \/ RunJobTimeout("h1")
  \/ WorkerGet
  \/ \E out \in SomeOutcomes : WorkerCallEnd(out)
  \/ WorkerCacheSet
  \/ WorkerPop
  \/ WorkerDoneSet
  \/ Slept /\ WorkerSleep
SpecThrottle == Init /\ [][NextThrottle]_vars

\* the MCP client used by the threads TS, the subprocesses, and time
Client(t) ==
  \/ \E popen_ok \in BOOLEAN : GetMcpProc(t, popen_ok)
  \/ SendIncr(t)
  \/ SendWrite(t)
  \/ SendLoop(t)
  \/ SendReadline(t)
  \/ CallMcpEnd(t)
Subprocess ==
  \/ \E p \in ProcIds, id \in 1..MaxReq : ProcAnswer(p, id)
  \/ \E p \in ProcIds : ProcOther(p)
  \/ \E p \in ProcIds : ProcExit(p)

\* the worker and the discovery thread both inside _call_mcp
NextRpc == Subprocess \/ \E t \in Threads : Client(t)
SpecRpc == Init /\ [][NextRpc]_vars

\* the worker alone; it is scheduled and time passes, while nothing obliges
\* the subprocess to do anything
NextRpcOne == Tick \/ Subprocess \/ Client("w")
SpecRpcOne == Init /\ [][NextRpcOne]_vars /\ WF_vars(Tick) /\ WF_vars(Client("w"))

\* str(exc) of what _get_mcp_proc and _send_rpc raise
StrOfExc(exc) ==
  CASE exc = "TimeoutError"    -> "No response"
    [] exc = "BrokenPipeError" -> "Broken pipe"
    [] OTHER                   -> "spawn failed"

\* what the call of the worker gets from the MCP client: the value of the
\* response, or the exception
OutOf(res) ==
  IF res.exc = "-" THEN Returned("v1")
  ELSE Raised([type |-> res.exc, msg |-> StrOfExc(res.exc)])

\* the worker thread with the MCP client inside its call: _call_mcp is
\* entered for the Job dequeued, runs _get_mcp_proc and _send_rpc, and its
\* outcome is what the worker handles; then its frame goes
WorkerThread ==
  \/ WorkerGet
  \/ wpc = "mcp" /\ \E popen_ok \in BOOLEAN : GetMcpProc("w", popen_ok)
  \/ SendIncr("w")
  \/ SendWrite("w")
  \/ SendLoop("w")
  \/ SendReadline("w")
  \/ tpc["w"] \in {"ret", "raise"} /\ WorkerCallEnd(OutOf(tres["w"]))
  \/ wpc # "mcp" /\ CallMcpEnd("w")
  \/ tpc["w"] = "idle" /\ WorkerCacheSet
  \/ tpc["w"] = "idle" /\ WorkerPop
  \/ WorkerDoneSet
  \/ WorkerSleep

\* a handler thread submitting listTables and waiting for its Job, the
\* worker thread, the subprocess and time; the worker thread is scheduled
\* and time passes, while nothing obliges the subprocess or the handler to
\* do anything
NextLive ==
  \/ Tick
  \/ Subprocess
  \/ WorkerThread
  \/ \E req \in {r \in Requests : r.tool = "listTables"} : EnqueueLookup("h1", req)
  \/ EnqueuePending("h1")
  \/ EnqueuePut("h1")
  \/ RunJobWake("h1")
SpecLive == Init /\ [][NextLive]_vars /\ WF_vars(Tick) /\ WF_vars(WorkerThread)

\* ------------------------------------------------------------------ claims
KeyOf(req) == CacheKey(req.tool, req.params)
InQueue(j) == \E i \in DOMAIN job_queue : job_queue[i] = j
IsPending(j) == \E k \in DOMAIN pending_jobs : pending_jobs[k] = j
\* a Job made by the create path of _enqueue
Real(j) == jobs[j] # NoJob /\ j \notin synth

\* C1: single-flight. A submit whose cache lookup missed while a Job for its
\* key was in the Pending Index gets that Job: it creates no second Job, so
\* no second backend call is made for the key.
C1_SingleFlight ==
  \A c \in Callers : (csaw[c] # 0 /\ cjob[c] # 0) => cjob[c] = csaw[c]

\* C2: at most one backend request is outstanding: the worker and the
\* discovery thread are never inside _call_mcp at the same time.
C2_OneCallInFlight == ~(wpc = "mcp" /\ DiscInCall)

\* C3: only the worker thread invokes _call_mcp: the thread started by
\* /api/uns/databases is never inside _call_mcp.
C3_OnlyWorkerCalls == dpc \notin {"types_mcp", "policies_mcp", "netdbs_mcp"}

\* C4: cache-hit fast path. A submit that finds a fresh non-None entry returns
\* a new Job with done set and the cached value as result, and changes neither
\* the queue nor the Pending Index nor another Job; such a Job is never queued
\* and never executed.
C4_CacheHitFastPath ==
  /\ [][\A c \in Callers, req \in Requests :
          ( /\ cpc[c] = "idle" /\ cpc'[c] # "idle" /\ creq'[c] = req
            /\ KeyOf(req) \in DOMAIN cache
            /\ clock - cache_ts[KeyOf(req)] < req.ttl
            /\ cache[KeyOf(req)] # None )
          => /\ cpc'[c] = "wait"
             /\ jobs[cjob'[c]] = NoJob
             /\ jobs'[cjob'[c]].done
             /\ jobs'[cjob'[c]].result = cache[KeyOf(req)]
             /\ jobs'[cjob'[c]].error = None
             /\ \A j \in JobIds \ {cjob'[c]} : jobs'[j] = jobs[j]
             /\ job_queue' = job_queue
             /\ pending_jobs' = pending_jobs
             /\ cjob'[c] \in synth']_vars
  /\ [](\A j \in synth : ~InQueue(j) /\ ~IsPending(j) /\ j # wjob /\ j \notin started)

\* a caller holds a completed Job of the fast path while a Job is queued
C4_Witness ==
  \E c \in Callers :
    /\ cpc[c] = "wait" /\ cjob[c] \in synth
    /\ jobs[cjob[c]].done /\ jobs[cjob[c]].result = "v1"
    /\ job_queue # << >>

\* C5: join. A submit that reaches the Pending Index while it holds a Job for
\* the key returns that very Job; the queue, the Pending Index and the Jobs
\* are unchanged.
C5_Join ==
  [][\A c \in Callers :
       ( /\ cpc[c] = "lock" /\ cpc'[c] # "lock"
         /\ KeyOf(creq[c]) \in DOMAIN pending_jobs )
       => /\ cpc'[c] = "wait"
          /\ cjob'[c] = pending_jobs[KeyOf(creq[c])]
          /\ job_queue' = job_queue
          /\ pending_jobs' = pending_jobs
          /\ jobs' = jobs]_vars

\* two callers wait on the same unfinished Job, queued once
C5_Witness ==
  \E c, d \in Callers :
    /\ c # d /\ cpc[c] = "wait" /\ cpc[d] = "wait"
    /\ cjob[c] = cjob[d] /\ Real(cjob[c]) /\ ~jobs[cjob[c]].done
    /\ Cardinality({i \in DOMAIN job_queue : job_queue[i] = cjob[c]}) = 1

\* C6: freshness is decided at the lookup with the caller's ttl: a cache_get
\* returns the value of the last cache_set of the key iff there is one since
\* the last clear and less than ttl has passed since it; else None.
C6_FreshAtLookup ==
  [][got' # got =>
       LET g == got'[2]
       IN g.val = IF g.key \in DOMAIN was_set /\ g.at - was_set[g.key].at < g.ttl
                  THEN was_set[g.key].val ELSE None]_vars

\* one entry: a hit for the long ttl, then a miss for the short one
C6_Witness ==
  /\ got[1].key = got[2].key /\ got[1].key \in DOMAIN was_set
  /\ got[1].ttl = CACHE_TTL_S /\ got[1].val = "v1"
  /\ got[1].at = was_set[got[1].key].at
  /\ got[2].ttl = DATA_TTL_S /\ got[2].val = None
  /\ got[2].at - was_set[got[2].key].at >= DATA_TTL_S
  /\ got[2].at - was_set[got[2].key].at < CACHE_TTL_S
  /\ was_set[got[1].key].val = "v1"

\* C7: completion order. Once done is set on a Job of the create path the
\* Pending Index no longer holds it and, if it has no error, its result was
\* written to the cache; and the cache write precedes the removal.
C7_CompletionOrder ==
  /\ \A j \in JobIds : (Real(j) /\ jobs[j].done) =>
        /\ ~IsPending(j)
        /\ j \in started
        /\ (jobs[j].error = None => j \in stored)
  /\ (wpc \in {"set", "sleep"} /\ wout.kind = "ok") => wjob \in stored
  /\ (wpc = "set") => ~IsPending(wjob)

\* a successful Job is done and a caller still waits on it
C7_Witness ==
  \E c \in Callers :
    /\ cpc[c] = "wait" /\ Real(cjob[c]) /\ jobs[cjob[c]].done
    /\ jobs[cjob[c]].result = "v1" /\ cjob[c] \in stored
    /\ wpc = "sleep" /\ wjob = cjob[c]

C9_TimeoutAbandonsOnlyCaller ==
  /\ [][\A c \in Callers :
          (cpc[c] = "wait" /\ ~jobs[cjob[c]].done /\ cpc'[c] = "idle")
          => /\ jobs'[cjob[c]] = jobs[cjob[c]]
             /\ pending_jobs' = pending_jobs
             /\ job_queue' = job_queue
             /\ cache' = cache /\ cache_ts' = cache_ts]_vars
  /\ [](\A j \in JobIds : (Real(j) /\ ~jobs[j].done) =>
          \/ InQueue(j)
          \/ wjob = j
          \/ \E c \in Callers : cpc[c] = "put" /\ cjob[c] = j)

\* every caller of a Job gave up, and the worker executed it and wrote its
\* result to the cache
C9_Witness ==
  /\ wpc = "set" /\ wjob \in stored
  /\ \A c \in Callers : cjob[c] # wjob
  /\ jobs[wjob].cache_key \in DOMAIN cache
  /\ cache[jobs[wjob].cache_key] = "v1"

\* C10: the worker never stops because of a Job: every outcome of the call
\* is recorded on that Job only, and after the sleep the worker dequeues
\* again.
C10_WorkerSurvives ==
  /\ [](wpc \in {"get", "mcp", "cache_set", "pop", "set", "sleep"})
  /\ [][(wpc = "mcp" /\ wpc' # "mcp") =>
          /\ \A j \in JobIds \ {wjob} : jobs'[j] = jobs[j]
          /\ wout'.kind = "exc" => jobs'[wjob].error = wout'.msg
          /\ wout'.kind = "ok" => jobs'[wjob].result = wout'.val]_vars
  /\ [][(wpc = "sleep" /\ wpc' # "sleep") => wpc' = "get"]_vars

\* a Job failed on a spawn failure, and the worker executes the next Job
C10_Witness ==
  \E c \in Callers :
    /\ cpc[c] = "wait" /\ jobs[cjob[c]].done
    /\ jobs[cjob[c]].error = "spawn failed"
    /\ wpc = "mcp" /\ wjob # cjob[c]

\* C11: throttle. The backend call of a Job starts at least CALL_DELAY_S after
\* the start of the previous one: the worker enters a sleep of CALL_DELAY_S
\* after every call, failed or not, and dequeues only when it is over. A
\* submit served from the cache is done in its own step, whatever the worker
\* does.
C11_Throttle ==
  /\ [][(wpc = "get" /\ wpc' = "mcp" /\ last_start >= 0)
          => clock - last_start >= CALL_DELAY_S]_vars
  /\ [][(wpc = "set" /\ wpc' = "sleep") => wake' = clock + CALL_DELAY_S]_vars
  /\ [][(wpc = "sleep" /\ wpc' # "sleep") => clock >= wake]_vars
  /\ [][(wpc' = "mcp" /\ wpc # "mcp") => (wpc = "get" /\ last_start' = clock)]_vars
  /\ [][\A c \in Callers :
          (cpc[c] = "idle" /\ cpc'[c] = "wait")
          => (jobs'[cjob'[c]].done /\ clock' = clock /\ wake' = wake)]_vars

\* a Job failed, and the call of the next Job started exactly when the sleep
\* that followed the failure was over
C11_Witness ==
  \E c \in Callers :
    /\ cpc[c] = "wait" /\ Real(cjob[c]) /\ jobs[cjob[c]].done
    /\ jobs[cjob[c]].error = "boom"
    /\ wpc = "mcp" /\ wjob # cjob[c]
    /\ last_start = wake /\ clock = last_start /\ wake >= CALL_DELAY_S

\* C16: FIFO service. The queue changes only by a put at its tail or by the
\* worker taking its head, and the Job the worker takes is the one whose call
\* starts; the queued Jobs are distinct, have distinct cache keys and have
\* not started.
C16_Fifo ==
  /\ [][job_queue' # job_queue =>
          \/ \E c \in Callers : cpc[c] = "put" /\ job_queue' = Append(job_queue, cjob[c])
          \/ /\ job_queue # << >>
             /\ job_queue' = Tail(job_queue)
             /\ wpc = "get" /\ wpc' = "mcp"
             /\ wjob' = Head(job_queue)
             /\ started' = started \cup {Head(job_queue)}]_vars
  /\ [](\A i, k \in DOMAIN job_queue :
          /\ job_queue[i] \notin started
          /\ job_queue[i] # wjob
          /\ i # k => jobs[job_queue[i]].cache_key # jobs[job_queue[k]].cache_key)

\* two Jobs with distinct keys were queued; the worker executes the one a
\* caller put first while the other is still queued
C16_Witness ==
  \E c, d \in Callers :
    /\ cpc[c] = "wait" /\ cpc[d] = "wait"
    /\ wpc = "mcp" /\ wjob = cjob[c]
    /\ job_queue = <<cjob[d]>>
    /\ jobs[cjob[c]].cache_key # jobs[cjob[d]].cache_key

\* C18: cache_clear discards every entry: a key that was not set since the
\* last clear is absent for every ttl.
C18_ClearDiscardsAll ==
  \A k \in CacheKeys : k \notin DOMAIN was_set =>
    \A ttl \in 0..(MaxClock + 1) : cache_get(k, ttl) = None

\* a lookup hit, the cache was cleared, and the same lookup at the same
\* time misses
C18_Witness ==
  /\ got[1].key = got[2].key /\ got[1].ttl = got[2].ttl /\ got[1].at = got[2].at
  /\ got[1].val = "v1" /\ got[2].val = None
  /\ got[2].ttl = CACHE_TTL_S
  /\ was_set = EmptyDict

\* C12: every _send_rpc that expects a response ends: the worker does not
\* stay in the read loop for ever, whatever the subprocess does.
C12_SendRpcTerminates ==
  (tpc["w"] \in {"loop", "readline"}) ~> (tpc["w"] \notin {"loop", "readline"})

\* C13: the message _call_mcp gets from _send_rpc carries the id the thread
\* wrote in its own request.
C13_Correlation == \A t \in Threads : tpc[t] = "ret" => tres[t].id = tid[t]

\* C14: transparent respawn. A call that finds no live subprocess spawns a new
\* one (or fails in Popen) and starts its handshake; the handshake is left
\* without an error only when initialize was answered; and the tools/call of
\* a call that spawned is written to the subprocess it spawned, after that
\* subprocess answered initialize.
C14_Respawn ==
  /\ [][\A t \in Threads :
          ( /\ tpc[t] = "idle" /\ tpc'[t] # "idle"
            /\ (mcp_proc = 0 \/ procs[mcp_proc].state = "exited") )
          => \/ tpc'[t] = "raise" /\ tres'[t].exc = "OSError"
             \/ /\ mcp_proc' # mcp_proc
                /\ procs[mcp_proc'].state = "none"
                /\ procs'[mcp_proc'].state = "alive"
                /\ spawned'[t] = mcp_proc' /\ tproc'[t] = mcp_proc'
                /\ tmethod'[t] = "initialize"]_vars
  /\ [][\A t \in Threads :
          (tmethod[t] = "initialize" /\ tmethod'[t] # "initialize" /\ tpc[t] # "raise")
          => (tproc[t] \in inited' /\ tpc'[t] = "incr")]_vars
  /\ [][\A t \in Threads :
          ( /\ tmethod[t] = "tools/call" /\ tpc[t] = "write" /\ tpc'[t] = "loop"
            /\ spawned[t] # 0 )
          => (tproc[t] = spawned[t] /\ tproc[t] \in inited)]_vars

\* the first subprocess has exited; the call spawned the second one, which
\* answered initialize, and the tools/call of the call is written to it
C14_Witness ==
  \E t \in Threads :
    /\ procs[1].state = "exited"
    /\ spawned[t] = 2 /\ tproc[t] = 2 /\ mcp_proc = 2
    /\ tmethod[t] = "tools/call" /\ tpc[t] = "loop"
    /\ 2 \in inited /\ 2 \in called

\* C15: no tools/call is written to a subprocess whose initialize was not
\* answered.
C15_NoCallWithoutHandshake == called \subseteq inited

\* the backend answered with a JSON-RPC error object or an error-flagged
\* content envelope, and the diagnostic text it gave
IsRemoteError(resp) ==
  \/ "error" \in DOMAIN resp
  \/ /\ "result" \in DOMAIN resp
     /\ "content" \in DOMAIN resp.result
     /\ "isError" \in DOMAIN resp.result
     /\ resp.result.isError
DiagText(resp) ==
  IF "error" \in DOMAIN resp THEN resp.error.message
  ELSE LET texts == SelectSeq(resp.result.content, LAMBDA c : c.type = "text")
       IN IF texts = << >> THEN "" ELSE texts[1].text

\* C17 as claimed: on a remote error the Job's error is the backend's
\* diagnostic text, its result stays None and the cache is not written.
C17_RemoteErrorText ==
  [][(wpc = "mcp" /\ wpc' # "mcp" /\ IsRemoteError(wout'.resp)) =>
       /\ jobs'[wjob].error = DiagText(wout'.resp)
       /\ jobs'[wjob].result = None
       /\ cache' = cache /\ cache_ts' = cache_ts]_vars

\* C17 amended: on a remote error the call raises; the Job's error is the
\* message of a JSON-RPC error object, and "MCP tool error: " followed by the
\* diagnostic text for an error-flagged envelope; the result stays None, the
\* cache is not written then, and the Job is never stored.
C17_RemoteErrorPrefixed ==
  /\ [][(wpc = "mcp" /\ wpc' # "mcp" /\ IsRemoteError(wout'.resp)) =>
          /\ wout'.kind = "exc" /\ wpc' = "pop"
          /\ jobs'[wjob].error =
               IF "error" \in DOMAIN wout'.resp THEN DiagText(wout'.resp)
               ELSE "MCP tool error: " \o DiagText(wout'.resp)
          /\ jobs'[wjob].result = None
          /\ cache' = cache /\ cache_ts' = cache_ts]_vars
  /\ []((wout.kind # "none" /\ IsRemoteError(wout.resp)) =>
          (wout.kind = "exc" /\ wjob \notin stored /\ wpc # "cache_set"))

\* the envelope with the text "boom" failed the Job of a waiting caller, and
\* the cache has nothing for its key
C17_Witness ==
  \E c \in Callers :
    /\ cpc[c] = "wait" /\ cjob[c] = wjob /\ wpc = "sleep"
    /\ jobs[wjob].done /\ jobs[wjob].result = None
    /\ jobs[wjob].error = "MCP tool error: boom"
    /\ wout.resp.result.content = <<TextItem("boom")>>
    /\ jobs[wjob].cache_key \notin DOMAIN cache

\* ------------------------------------------------ anylog_rest_proxy claims
\* the body has a non-blank text under the key
C19_HasNonBlank(body, key) ==
  /\ body.kind = "dict"
  /\ key \in DOMAIN body.items
  /\ body.items[key] \notin {"", "   "}

\* the fields an endpoint requires
C19_Required(path) ==
  CASE path = "/api/query"           -> {"dbms", "sql"}
    [] path = "/api/query/increment" -> {"dbms", "table"}
    [] path = "/api/command"         -> {"command"}
    [] OTHER                         -> {}

\* a POST that lacks a required non-blank field
C19_Lacks(req) ==
  /\ req.method = "POST"
  /\ \E key \in C19_Required(req.path) : ~C19_HasNonBlank(req.body, key)

\* C19: a POST /api/query without a non-blank dbms and sql, a POST
\* /api/query/increment without a non-blank dbms and table, and a POST
\* /api/command without a non-blank command never reach the backend call;
\* they are answered with status 400 and a JSON object with an 'error' key,
\* and anylog_calls is what it was when the request came.
C19_Validation ==
  \A h \in LHandlers :
    C19_Lacks(lreq[h]) =>
      /\ lpc[h] \notin {"al_read", "al_write", "backend"}
      /\ lpc[h] = "done" =>
           /\ lresp[h].status = 400 /\ lresp[h].error
           /\ stats.anylog_calls = lbefore[h].anylog_calls

\* a valid POST /api/query
C20_ValidQuery(req) ==
  /\ req.method = "POST" /\ req.path = "/api/query"
  /\ C19_HasNonBlank(req.body, "dbms") /\ C19_HasNonBlank(req.body, "sql")

\* C20: when a valid POST /api/query has completed, proxy_calls and
\* anylog_calls are each strictly greater than they were when it started,
\* whatever the other threads of the server did meanwhile.
C20_CountersIncrease ==
  \A h \in LHandlers :
    (lpc[h] = "done" /\ C20_ValidQuery(lreq[h])) =>
      /\ stats.proxy_calls > lbefore[h].proxy_calls
      /\ stats.anylog_calls > lbefore[h].anylog_calls

\* C21: GET /stats is local-only. No step of a thread handling GET /stats
\* changes proxy_calls, anylog_calls, total_rows or errors, and the thread
\* never enters the increment of _count nor anylog_get.
C21_StatsLocal ==
  [][\A h \in LHandlers :
       ( /\ lpc'[h] # lpc[h]
         /\ (lreq[h].path = "/stats" \/ lreq'[h].path = "/stats") )
       => /\ stats' = stats
          /\ lpc'[h] \notin {"count_w", "al_read", "al_write", "backend"}]_vars

\* GET /stats has been answered after other requests were counted, and the
\* counters are what they were when it came
C21_Witness ==
  \E h \in LHandlers :
    /\ lpc[h] = "done" /\ lreq[h].path = "/stats" /\ lresp[h].status = 200
    /\ stats.proxy_calls > 0 /\ stats.anylog_calls > 0
    /\ stats.proxy_calls = lbefore[h].proxy_calls
    /\ stats.anylog_calls = lbefore[h].anylog_calls

\* the failures of the backend call at the AnyLog level: a malformed chunked
\* response, a connection error, a timeout, an HTTP error status
C22_AnyLogLevel(cause) ==
  \/ cause.cls \in {"ChunkedEncodingError", "ProtocolError", "ConnectionError",
                    "ConnectTimeout", "ReadTimeout", "HTTPError"}
  \/ cause.marker

\* C22: a POST /api/query whose backend call failed at the AnyLog level is
\* answered with status 502 or 504 and a JSON object with an 'error' key,
\* never with 500.
C22_HandledBackendError ==
  \A h \in LHandlers :
    ( /\ lpc[h] = "done" /\ lreq[h].path = "/api/query"
      /\ C22_AnyLogLevel(lresp[h].cause) )
    => /\ lresp[h].status \in {502, 504}
       /\ lresp[h].error

\* a query whose backend call timed out has been answered 504
C22_Witness ==
  \E h \in LHandlers :
    /\ lpc[h] = "done" /\ lreq[h].path = "/api/query"
    /\ lresp[h].cause.cls = "ReadTimeout"
    /\ lresp[h].status = 504 /\ lresp[h].error
    /\ stats.anylog_calls > lbefore[h].anylog_calls

\* ------------------------------------------------------ the bridge, again
\* the cache holds an entry for the key that is fresh for the ttl
C23_Fresh(key, ttl) == key \in DOMAIN cache /\ clock - cache_ts[key] < ttl

\* C23: the worker re-checks the cache when it dequeues a Job: it never
\* enters _call_mcp for a Job whose key has a fresh entry in the cache.
C23_WorkerRecheck ==
  [][(wpc = "get" /\ wpc' = "mcp") =>
       ~C23_Fresh(jobs[wjob'].cache_key, jobs[wjob'].cache_ttl)]_vars

\* the worker executes the Job: from the dequeue to the finally block
C24_Executing(j) == wjob = j /\ wpc \in {"mcp", "cache_set", "pop"}

\* every Job queued or executing is the Pending Index entry of its key
C24_AllPending ==
  \A j \in JobIds :
    (InQueue(j) \/ C24_Executing(j)) =>
      /\ jobs[j].cache_key \in DOMAIN pending_jobs
      /\ pending_jobs[jobs[j].cache_key] = j

\* C24 as claimed: in every state the Pending Index holds exactly the Jobs
\* queued or executing.
C24_PendingExact ==
  /\ C24_AllPending
  /\ \A k \in DOMAIN pending_jobs :
       InQueue(pending_jobs[k]) \/ C24_Executing(pending_jobs[k])

\* C24 amended: every Job queued or executing is the Pending Index entry of
\* its key, and every entry of the Pending Index is, under its own key, a Job
\* that is queued, executing, or held by the submit that created it and has
\* not yet put it on the queue.
C24_PendingExactOrPut ==
  /\ C24_AllPending
  /\ \A k \in DOMAIN pending_jobs :
       /\ jobs[pending_jobs[k]].cache_key = k
       /\ \/ InQueue(pending_jobs[k])
          \/ C24_Executing(pending_jobs[k])
          \/ \E c \in Callers : cpc[c] = "put" /\ cjob[c] = pending_jobs[k]

\* one Job executing, one queued and one created but not yet queued: the two
\* keys are in the Pending Index
C24_Witness ==
  \E c \in Callers :
    /\ wpc = "mcp" /\ IsPending(wjob)
    /\ cpc[c] = "put" /\ IsPending(cjob[c]) /\ ~InQueue(cjob[c])
    /\ cjob[c] # wjob
    /\ Cardinality(DOMAIN pending_jobs) = 2

\* C25: the worker removes the Pending Index entry of a Job's key on the
\* failure path as on the success path: whatever the outcome of the call,
\* the key is not in the index after the removal step; a Job the worker
\* executed and set done is not in the index; and a submit that joins gets a
\* Job that is not done.
C25_PopOnEveryPath ==
  /\ [][(wpc = "pop" /\ wpc' # "pop") =>
          /\ wout.kind \in {"ok", "exc"}
          /\ jobs[wjob].cache_key \notin DOMAIN pending_jobs']_vars
  /\ [](\A j \in JobIds : (j \in started /\ jobs[j].done) => ~IsPending(j))
  /\ [][\A c \in Callers :
          (cpc[c] = "lock" /\ cpc'[c] = "wait") => ~jobs[cjob'[c]].done]_vars

\* a caller still holds a Job that failed, and the other caller's submit for
\* the same key has created a new Job
C25_Witness ==
  \E c, d \in Callers :
    /\ cpc[c] = "wait" /\ cjob[c] \in started /\ jobs[cjob[c]].done
    /\ jobs[cjob[c]].error = "boom"
    /\ cpc[d] \in {"put", "wait"} /\ cjob[d] # cjob[c] /\ Real(cjob[d])
    /\ ~jobs[cjob[d]].done
    /\ jobs[cjob[d]].cache_key = jobs[cjob[c]].cache_key
    /\ IsPending(cjob[d])

\* C26: a Job is immutable once done is set: no step changes a field of a Job
\* that is done; the Job only disappears, once no caller holds it. So the
\* callers that hold one Job read one result and one error.
C26_DoneIsFinal ==
  [][\A j \in JobIds :
       jobs[j].done =>
         \/ jobs'[j] = jobs[j]
         \/ jobs'[j] = NoJob /\ \A c \in Callers : cjob'[c] # j]_vars

\* the submitter and a joiner hold the same Job, done with its result, after
\* the worker has gone on to its next iteration
C26_Witness ==
  \E c, d \in Callers :
    /\ c # d /\ cpc[c] = "wait" /\ cpc[d] = "wait"
    /\ cjob[c] = cjob[d] /\ Real(cjob[c])
    /\ jobs[cjob[c]].done /\ jobs[cjob[c]].result = "v1"
    /\ wjob # cjob[c]
    /\ RunJobResult(jobs[cjob[c]]) = <<"v1", None>>

\* C27: request ids are allocated race-free: _req_id never decreases, and
\* two threads that each have a request written and unanswered wrote
\* different ids.
C27_UniqueIds ==
  /\ [][req_id' >= req_id]_vars
  /\ [](\A t, u \in Threads :
          (t # u /\ tid[t] # 0 /\ tid[u] # 0) => tid[t] # tid[u])

\* two params are equal as mappings: they have the same items
C28_SameMapping(p, q) == {p[i] : i \in DOMAIN p} = {q[i] : i \in DOMAIN q}

\* the request asks for what the Job was made for, ttl aside
C28_SameCall(req, job) ==
  req.tool = job.tool /\ C28_SameMapping(req.params, job.params)

\* C28: submits with the same tool and with params that are equal as
\* mappings have the same cache key, whatever the order of the items and
\* whatever the ttl: their Jobs have one key, a submit finding such a Job in
\* the Pending Index joins it, and a submit finding the stored result of
\* such a Job in the cache, fresh for its ttl, is answered from the cache.
C28_Canonical ==
  /\ [](\A c, d \in Callers :
          ( /\ cjob[c] # 0 /\ cjob[d] # 0
            /\ creq[c].tool = creq[d].tool
            /\ C28_SameMapping(creq[c].params, creq[d].params) )
          => jobs[cjob[c]].cache_key = jobs[cjob[d]].cache_key)
  /\ [][\A c \in Callers :
          ( /\ cpc[c] = "lock" /\ cpc'[c] # "lock"
            /\ \E k \in DOMAIN pending_jobs :
                 C28_SameCall(creq[c], jobs[pending_jobs[k]]) )
          => /\ cpc'[c] = "wait"
             /\ C28_SameCall(creq[c], jobs[cjob'[c]])
             /\ jobs' = jobs /\ job_queue' = job_queue]_vars
  /\ [][\A c \in Callers :
          ( /\ cpc[c] = "idle" /\ cpc'[c] # "idle"
            /\ \E j \in stored :
                 /\ C28_SameCall(creq'[c], jobs[j])
                 /\ jobs[j].cache_key \in DOMAIN cache
                 /\ clock - cache_ts[jobs[j].cache_key] < creq'[c].ttl )
          => /\ cpc'[c] = "wait"
             /\ cjob'[c] \in synth'
             /\ jobs'[cjob'[c]].done
             /\ \E j \in stored : jobs'[cjob'[c]].result = jobs[j].result]_vars

\* the two callers hold one unfinished Job, for submits that list the params
\* in different orders and with different ttl
C28_Witness ==
  \E c, d \in Callers :
    /\ cpc[c] = "wait" /\ cpc[d] = "wait"
    /\ cjob[c] = cjob[d] /\ Real(cjob[c]) /\ ~jobs[cjob[c]].done
    /\ creq[c].params # creq[d].params
    /\ creq[c].ttl # creq[d].ttl
    /\ C28_SameMapping(creq[c].params, creq[d].params)

\* C29: cache_set replaces value and timestamp together. In every state in
\* which a cache_get reads, the two dicts have the same keys, and the value
\* and the timestamp of each key are those of one cache_set, the last one
\* of the key; a get returns that value or None.
C29_SetIsWhole ==
  /\ [](\A t \in CacheThreads :
          kpc[t] = "get" =>
            /\ DOMAIN cache = DOMAIN cache_ts
            /\ DOMAIN cache = DOMAIN was_set
            /\ \A k \in DOMAIN cache :
                 cache[k] = was_set[k].val /\ cache_ts[k] = was_set[k].at)
  /\ [][got' # got =>
          LET g == got'[2]
          IN g.val = IF g.key \in DOMAIN was_set /\ g.at - was_set[g.key].at < g.ttl
                     THEN was_set[g.key].val ELSE None]_vars

\* a thread is about to read a key that was set twice, at two times and with
\* two values, while the other thread waits for the lock
C29_Witness ==
  \E t, u \in CacheThreads :
    /\ t # u /\ kpc[t] = "get" /\ kpc[u] = "idle" /\ cache_lock = t
    /\ karg[t].key \in DOMAIN cache
    /\ cache[karg[t].key] = "v1" /\ cache_ts[karg[t].key] > 0
    /\ Cardinality(DOMAIN cache) = 2

\* C30: cache_get is read-only. A step that records a get leaves both dicts
\* as they are, also when the entry is stale for the ttl; an entry leaves the
\* cache only when cache_clear empties it, and the value or the timestamp of
\* an entry changes only by a cache_set of its key.
C30_GetReadOnly ==
  [][/\ got' # got => (cache' = cache /\ cache_ts' = cache_ts)
     /\ \A k \in DOMAIN cache :
          k \notin DOMAIN cache' =>
            (cache' = EmptyDict /\ cache_ts' = EmptyDict /\ got' = got)
     /\ \A k \in DOMAIN cache \cap DOMAIN cache' :
          (cache'[k] # cache[k] \/ cache_ts'[k] # cache_ts[k]) =>
            /\ got' = got
            /\ k \in DOMAIN was_set'
            /\ was_set'[k] = [val |-> cache'[k], at |-> clock]
            /\ cache_ts'[k] = clock]_vars

\* two gets of a stale entry returned None, and the entry is still there
\* with its value and its timestamp
C30_Witness ==
  /\ got[1].key = got[2].key /\ got[2].key \in DOMAIN cache
  /\ got[1].val = None /\ got[2].val = None
  /\ got[1].at < got[2].at /\ got[2].at = clock
  /\ got[1].at - cache_ts[got[1].key] >= got[1].ttl
  /\ cache[got[2].key] = "v1"
  /\ was_set[got[2].key] = [val |-> "v1", at |-> cache_ts[got[2].key]]

\* the envelope carries no text content fragment: no content, or no item of
\* type text in it
C31_NoText(result) ==
  \/ "content" \notin DOMAIN result
  \/ \A i \in DOMAIN result.content : result.content[i].type # "text"

\* C31: when the envelope of the response carries no text content fragment,
\* the call returns the envelope as it is, and that is the result of the Job.
C31_RawReturned ==
  [][( /\ wpc = "mcp" /\ wpc' # "mcp"
       /\ "result" \in DOMAIN wout'.resp
       /\ C31_NoText(wout'.resp.result) )
     => /\ wout'.kind = "ok"
        /\ wout'.val = Value(wout'.resp.result)
        /\ jobs'[wjob].result = Value(wout'.resp.result)]_vars

\* C32: the notification that follows the handshake is written without an id
\* member (nothing is left for the subprocess to answer), it is written only
\* once the initialize response was received, and the client does not wait
\* for a response to it.
C32_NotificationNoId ==
  [][\A t \in Threads :
       ( /\ tpc[t] = "write" /\ tmethod[t] = "notifications/initialized"
         /\ tpc'[t] \notin {"write", "raise"} )
       => /\ tproc[t] \in inited
          /\ tpc'[t] \notin {"loop", "readline"}
          /\ procs'[tproc[t]].pend = procs[tproc[t]].pend]_vars

\* C35: a failed Job is never reported as a success: once the backend call
\* of a Job has raised, with any message, the empty one included, what
\* _run_job returns to every waiter of that Job carries an error.
C35_FailureReported ==
  \A c \in Callers :
    (cpc[c] = "wait" /\ jobs[cjob[c]].done /\ jobs[cjob[c]].error # None)
    => RunJobResult(jobs[cjob[c]])[2] # None

\* C36: a result stored by a successful call is served from the cache for its
\* whole ttl, whatever its value, JSON null included: a submit for the key
\* made while the entry is there and younger than the ttl returns a Job that
\* is completed already, and neither joins nor creates a Job for the worker.
C36_ServedForTtl ==
  [][\A c \in Callers :
       LET key == CacheKey(creq'[c].tool, creq'[c].params)
       IN ( /\ cpc[c] = "idle" /\ cpc'[c] # "idle"
            /\ key \in DOMAIN cache
            /\ clock - cache_ts[key] < creq'[c].ttl )
          => /\ cpc'[c] = "wait"
             /\ cjob'[c] \in synth'
             /\ jobs'[cjob'[c]].done]_vars

\* C34: every Job in the Pending Index has done unset, and a submit that
\* joins the in-flight Job of its key never receives a Job that is finished
\* already.
C34_PendingNotDone ==
  /\ [](\A k \in DOMAIN pending_jobs :
          Real(pending_jobs[k]) /\ ~jobs[pending_jobs[k]].done)
  /\ [][\A c \in Callers :
          (cpc[c] = "lock" /\ cpc'[c] = "wait")
          => ~jobs'[cjob'[c]].done]_vars

\* a submit has joined the Job that the worker has completed the call of and
\* is about to remove from the Pending Index
C34_Witness ==
  \E c, d \in Callers :
    /\ c # d /\ cpc[c] = "wait" /\ cpc[d] = "wait"
    /\ cjob[c] = wjob /\ cjob[d] = wjob
    /\ wpc = "pop" /\ wjob \in stored
    /\ IsPending(wjob) /\ ~jobs[wjob].done

\* C37: cache_clear touches the cache only: the step that empties the cache
\* leaves the job queue, the Pending Index, every Job, the worker and the
\* waiting handlers as they are, so a Job that is queued or executing goes
\* on; and when the call of a Job has returned the worker writes its result
\* to the cache, cleared or not, before it signals done.
C37_ClearOnlyCache ==
  [][ /\ (cache' = EmptyDict /\ UNCHANGED <<clock, cpc, wpc>>)
         => UNCHANGED <<jobVars, callerVars, workerVars, histVars>>
      /\ (wpc = "cache_set" /\ wpc' # "cache_set")
         => /\ jobs[wjob].cache_key \in DOMAIN cache'
            /\ cache'[jobs[wjob].cache_key] = jobs[wjob].result
            /\ cache_ts'[jobs[wjob].cache_key] = clock
            /\ ~jobs'[wjob].done ]_vars

\* the cache holds nothing but the entry the worker has just written for the
\* Job a handler waits on, while another handler still holds a Job completed
\* before it whose entry is gone: the cache was cleared between the two
C37_Witness ==
  \E c, d \in Callers :
    /\ cpc[c] = "wait" /\ cjob[c] \in stored /\ jobs[cjob[c]].done
    /\ jobs[cjob[c]].cache_key \notin DOMAIN cache
    /\ cpc[d] = "wait" /\ cjob[d] = wjob /\ wjob # cjob[c]
    /\ wpc = "pop" /\ wjob \in stored /\ ~jobs[wjob].done
    /\ DOMAIN cache = {jobs[wjob].cache_key}
    /\ cache[jobs[wjob].cache_key] = "v1"
    /\ IsPending(wjob)

\* C38: the timeout override of POST /api/command is temporary: when no
\* /api/command request is in progress, CFG["timeout"] has its startup value.
C38_TimeoutRestored ==
  (\A h \in LHandlers : lreq[h].path # "/api/command") => cfg_timeout = CFG_TIMEOUT

\* the worker thread has reached a bound of the model: no request id, or no
\* time for the deadline of a request, is left
C33_Exhausted ==
  \/ tpc["w"] = "incr" /\ req_id >= MaxReq
  \/ tpc["w"] = "write" /\ clock + RPC_DEADLINE_S > MaxClock

\* C33: every Job appended to the job queue eventually has done signalled,
\* when the worker thread is scheduled fairly, whatever the subprocess does.
C33_QueuedJobDone ==
  \A j \in JobIds :
    InQueue(j) ~> (jobs[j].done \/ C33_Exhausted)
====
